---- MODULE Spec2Model ----
(***************************************************************************)
(* Model of builtin/gc.c: the `gc` command (cmd_gc and its helpers) run by *)
(* several processes on one repository, and the `maintenance run` driver.  *)
(*                                                                         *)
(* Files of the repository that the processes share:                       *)
(*   gc.pid, gc.pid.lock   the housekeeping lock and its lockfile          *)
(*   gc.log, gc.log.lock   the failure marker and its lockfile             *)
(* Time is the value of time(NULL), in seconds.                            *)
(***************************************************************************)
EXTENDS Integers, Sequences, FiniteSets, TLC

\* ---------------------------------------------------------------- bounds
MaxTicks == 1
MaxTaskArgs == 2
MaxPacks == 3

\* the gc processes: two runs of `git gc` on the repository, on one host
Procs == {1, 2}

\* time(NULL) advances in steps of 13 hours, so that both the 12 hour
\* staleness limit of gc.pid and the one day horizon of gc.log are crossed.
TickSecs == 13 * 3600

\* 12 * 3600 in lock_repo_for_gc
StaleLimit == 12 * 3600

\* gc_log_expire = "1.day.ago"
LogExpirySecs == 24 * 3600

\* ----------------------------------------------------------------- state
VARIABLES
    now,            \* time(NULL)
    cfg,            \* gc_config(): the repository's settings
    gc_pid,         \* the file gc.pid
    gc_pid_lock,    \* the file gc.pid.lock: 0 absent, else the process that created it
    gc_log,         \* the file gc.log
    gc_log_lock,    \* the file gc.log.lock: 0 absent, else the process that created it
    pc,             \* where each gc process stands in cmd_gc
    auto_gc,        \* --auto
    force,          \* --force
    need,           \* what need_to_gc returned to cmd_gc (--auto only)
    daemonized,     \* cmd_gc's daemonized: the process is the detached child
    done,           \* gc_before_repack's static done
    pidfile,        \* is_tempfile_active(pidfile)
    log_installed,  \* log_lock held, stderr redirected, handlers installed
    err,            \* what the process wrote to the redirected stderr
    trace,          \* the steps the process invoked so far, in order
    status,         \* exit status: -1 while the process has not ended
    diag,           \* the last diagnostic the process printed
    overheld,       \* history: some holder kept gc.pid for more than 12 hours
    m_tasks,        \* maintenance: tasks[], the task array
    m_opts,         \* maintenance: opts
    m_args,         \* maintenance: the values of --task on the command line
    m_pc,           \* maintenance: position of the maintenance process
    m_i,            \* maintenance: loop index i of maintenance_run (from 1)
    m_result,       \* maintenance: result of maintenance_run
    m_status,       \* maintenance: exit status, -1 while it has not ended
    m_lock,         \* <object-dir>/maintenance.lock: "free", "mine" or "other"
    m_log,          \* maintenance: the calls of auto-conditions and executors
    x_pc,           \* task executor: "idle", or the task that has run
    x_midx0,        \* <object-dir>/pack/multi-pack-index when the task starts
    x_midx,         \* <object-dir>/pack/multi-pack-index: "absent", "good", "corrupt"
    x_packs,        \* the pack_size of the packs of the object store
    x_remotes,      \* the configured remotes, in the order of the configuration
    x_calls,        \* task executor: the children it has run, in order
    x_env,          \* task executor: what it reads of the repository
    x_result        \* task executor: what it returned

gcvars == <<now, cfg, gc_pid, gc_pid_lock, gc_log, gc_log_lock, pc, auto_gc,
            force, need, daemonized, done, pidfile, log_installed, err, trace,
            status, diag, overheld>>
mvars == <<m_tasks, m_opts, m_args, m_pc, m_i, m_result, m_status, m_lock, m_log>>
xvars == <<x_pc, x_midx0, x_midx, x_packs, x_remotes, x_calls, x_env, x_result>>
vars == <<gcvars, mvars, xvars>>

\* ----------------------------------------------------------------- files
NoPid == [exists |-> FALSE, parses |-> FALSE, pid |-> <<0, 0>>,
          host |-> "none", mtime |-> 0]
NoLog == [exists |-> FALSE, content |-> {}, mtime |-> 0, by |-> 0]

\* pids that are not gc processes of the model: one that is not alive and
\* one that belongs to another user (kill() fails with EPERM)
DeadPid == <<0, 0>>
EpermPid == <<0, 1>>

\* xgethostname(): the processes run on one host; other hosts appear in gc.pid
my_host(p) == "hostA"

\* getpid(): daemonize() continues in a child with a new pid
getpid(p) == <<p, IF daemonized[p] THEN 1 ELSE 0>>

Running(p) == pc[p] # "init" /\ status[p] = -1

\* !kill(pid, 0) || errno == EPERM, evaluated on the host of process p
kill_alive_or_eperm(p, pid) ==
    \/ pid = EpermPid
    \/ \E q \in Procs : Running(q) /\ my_host(q) = my_host(p) /\ getpid(q) = pid

\* ------------------------------------------------------- configurations
\* gc_config() and the command line: what decides which steps run
AllConfigs ==
    [detach_auto : BOOLEAN, pack_refs : BOOLEAN, prune_reflogs : BOOLEAN,
     precious : BOOLEAN, prune_expire : BOOLEAN, write_commit_graph : BOOLEAN,
     gc_auto : {6700}]

DefaultConfig ==
    [detach_auto |-> TRUE, pack_refs |-> TRUE, prune_reflogs |-> TRUE,
     precious |-> FALSE, prune_expire |-> TRUE, write_commit_graph |-> TRUE,
     gc_auto |-> 6700]

\* the configurations of the runs with several processes
Configs ==
    {DefaultConfig,
     [DefaultConfig EXCEPT !.detach_auto = FALSE],
     [DefaultConfig EXCEPT !.pack_refs = FALSE, !.prune_reflogs = FALSE,
                           !.precious = TRUE, !.write_commit_graph = FALSE]}

\* gc_config that takes gc.packrefs = notbare for true
gc_config_notbare_true(raw) ==
    [detach_auto |-> raw.autodetach,
     pack_refs |-> raw.packrefs # "false",
     prune_reflogs |-> ~(raw.reflogexpire = "never"
                         /\ raw.reflogexpireunreachable = "never"),
     precious |-> FALSE, prune_expire |-> TRUE, write_commit_graph |-> TRUE,
     gc_auto |-> 6700, raw |-> raw]

\* gc_config and line 576 of cmd_gc: the configuration in force under the
\* settings raw of gc.packrefs (with whether the repository is bare),
\* gc.reflogexpire, gc.reflogexpireunreachable and gc.autodetach
gc_config(raw) ==
    [detach_auto |-> raw.autodetach,
     pack_refs |-> IF raw.packrefs = "notbare" THEN ~raw.bare
                   ELSE raw.packrefs # "false",
     prune_reflogs |-> ~(raw.reflogexpire = "never"
                         /\ raw.reflogexpireunreachable = "never"),
     precious |-> FALSE, prune_expire |-> TRUE, write_commit_graph |-> TRUE,
     gc_auto |-> 6700, raw |-> raw]

\* the settings of gc.auto and gc.autoDetach
AutoConfigs ==
    {[DefaultConfig EXCEPT !.gc_auto = t, !.detach_auto = d] :
        t \in {0 - 1, 0, 1, 6700}, d \in BOOLEAN}

\* gc.pid as an earlier run or another host may have left it
PidInits ==
    {NoPid,
     [exists |-> TRUE, parses |-> TRUE, pid |-> DeadPid, host |-> "hostA", mtime |-> 0],
     [exists |-> TRUE, parses |-> TRUE, pid |-> EpermPid, host |-> "hostA", mtime |-> 0],
     [exists |-> TRUE, parses |-> TRUE, pid |-> DeadPid, host |-> "hostB", mtime |-> 0],
     [exists |-> TRUE, parses |-> FALSE, pid |-> DeadPid, host |-> "none", mtime |-> 0],
     [exists |-> TRUE, parses |-> TRUE, pid |-> DeadPid, host |-> "hostB",
      mtime |-> 0 - StaleLimit - 1]}

\* gc.log as an earlier run may have left it
LogInits ==
    {NoLog,
     [exists |-> TRUE, content |-> {"out"}, mtime |-> 0, by |-> 0],
     [exists |-> TRUE, content |-> {"out"}, mtime |-> 0 - LogExpirySecs - 1, by |-> 0]}

NoDiag == [msg |-> "none", host |-> "none", pid |-> <<0, 0>>]

\* ------------------------------------------------------ lock_repo_for_gc
\* should_exit without the probe of the recorded pid
should_exit_no_kill(p) ==
    /\ gc_pid.exists
    /\ now - gc_pid.mtime <= StaleLimit
    /\ gc_pid.parses
    /\ gc_pid.host # my_host(p)

\* should_exit of lock_repo_for_gc, computed by process p
should_exit(p) ==
    /\ gc_pid.exists
    /\ now - gc_pid.mtime <= StaleLimit
    /\ gc_pid.parses
    /\ (gc_pid.host # my_host(p) \/ kill_alive_or_eperm(p, gc_pid.pid))

\* whether lock_repo_for_gc returns the holder's hostname (refuses)
lock_refused(p) == ~force[p] /\ should_exit(p)

\* the record lock_repo_for_gc writes and commits as gc.pid
my_record(p) ==
    [exists |-> TRUE, parses |-> TRUE, pid |-> getpid(p), host |-> my_host(p),
     mtime |-> now]

\* lock_repo_for_gc that does not register gc.pid as a tempfile
register_tempfile_skipped(p) == pidfile

\* lock_repo_for_gc line 459: register_tempfile(pidfile_path)
register_tempfile(p) == [pidfile EXCEPT ![p] = TRUE]

\* the processes that hold the housekeeping lock
Holders == {p \in Procs : Running(p) /\ pidfile[p]}

\* ----------------------------------------------------- process_log_file
\* process_log_file without the unlink of an old gc.log
process_log_file_no_unlink(p, e, fstat_fails) ==
    IF fstat_fails
    THEN [exists |-> TRUE, content |-> e \cup {"fstat"}, mtime |-> now, by |-> p]
    ELSE IF e # {}
         THEN [exists |-> TRUE, content |-> e, mtime |-> now, by |-> p]
         ELSE gc_log

\* gc.log after process_log_file ran with e captured; fstat_fails: fstat() failed
process_log_file(p, e, fstat_fails) ==
    IF fstat_fails
    THEN [exists |-> TRUE, content |-> e \cup {"fstat"}, mtime |-> now, by |-> p]
    ELSE IF e # {}
         THEN [exists |-> TRUE, content |-> e, mtime |-> now, by |-> p]
         ELSE NoLog

\* the tempfile machinery at process end: unlink(gc.pid) when pidfile is
\* active, and removal of the lockfiles the process still holds
remove_tempfiles_pid(p) == IF pidfile[p] THEN NoPid ELSE gc_pid

\* The end of process p with exit status code: the atexit handlers
\* (process_log_file_at_exit, then the tempfile cleanup), or after a caught
\* signal process_log_file_on_signal and the tempfile cleanup.
\* log0: gc.log as the step left it, e: the captured stderr, d: the
\* diagnostic, fstat_fails: the fstat() of process_log_file failed.
ExitWith(p, code, log0, e, d, fstat_fails) ==
    /\ gc_log' = IF log_installed[p]
                 THEN process_log_file(p, e, fstat_fails)
                 ELSE log0
    /\ err' = [err EXCEPT ![p] = IF fstat_fails THEN e \cup {"fstat"} ELSE e]
    /\ gc_log_lock' = IF gc_log_lock = p THEN 0 ELSE gc_log_lock
    /\ gc_pid' = remove_tempfiles_pid(p)
    /\ gc_pid_lock' = IF gc_pid_lock = p THEN 0 ELSE gc_pid_lock
    /\ pidfile' = [pidfile EXCEPT ![p] = FALSE]
    /\ status' = [status EXCEPT ![p] = code]
    /\ diag' = [diag EXCEPT ![p] = d]
    /\ pc' = [pc EXCEPT ![p] = "ended"]

FstatChoices(p) == IF log_installed[p] THEN BOOLEAN ELSE {FALSE}

Exit(p, code, log0, e, d) ==
    \E fstat_fails \in FstatChoices(p) : ExitWith(p, code, log0, e, d, fstat_fails)

\* a die() whose message does not reach the captured stderr
died_silent(p, e) == e

\* what die() adds to the captured stderr
died(p, e) == IF log_installed[p] THEN e \cup {"die"} ELSE e

\* ----------------------------------------------------------- need_to_gc
\* need_to_gc without the test of gc_auto_threshold
need_to_gc_no_threshold(threshold, many_packs, many_loose, hook) ==
    IF many_packs \/ many_loose
    THEN [ret |-> (hook = 0), hook_run |-> TRUE]
    ELSE [ret |-> FALSE, hook_run |-> FALSE]

\* need_to_gc: threshold is gc_auto_threshold, many_packs and many_loose the
\* results of too_many_packs() and too_many_loose_objects(), hook the exit
\* status of the pre-auto-gc hook. hook_run: the hook was invoked.
need_to_gc(threshold, many_packs, many_loose, hook) ==
    IF threshold <= 0
    THEN [ret |-> FALSE, hook_run |-> FALSE]
    ELSE IF many_packs \/ many_loose
         THEN [ret |-> (hook = 0), hook_run |-> TRUE]
         ELSE [ret |-> FALSE, hook_run |-> FALSE]

\* ------------------------------------------------------ order of cmd_gc
\* the child a position of cmd_gc invokes
StepOf(at) ==
    CASE at = "pre_pack_refs" -> "pack-refs"
      [] at = "pre_reflog"    -> "reflog expire"
      [] at = "pack_refs"     -> "pack-refs"
      [] at = "reflog"        -> "reflog expire"
      [] at = "repack"        -> "repack"
      [] at = "prune"         -> "prune"
      [] at = "worktree"      -> "worktree prune"
      [] at = "rerere"        -> "rerere gc"
      [] OTHER                -> "none"

WorkerPcs == {"pre_pack_refs", "pre_reflog", "pack_refs", "reflog", "repack",
              "prune", "worktree", "rerere"}

\* cmd_gc after gc_before_repack returned in the main phase
after_before == IF ~cfg.precious THEN "repack" ELSE "worktree"

\* gc_before_repack without the guard on done
gc_before_repack_no_guard(d, pre) ==
    IF cfg.pack_refs THEN (IF pre THEN "pre_pack_refs" ELSE "pack_refs")
    ELSE IF cfg.prune_reflogs THEN (IF pre THEN "pre_reflog" ELSE "reflog")
    ELSE (IF pre THEN "detach" ELSE after_before)

\* gc_before_repack when called with done = d: where the process goes.
\* pre: the call before detaching (line 621), else the call of line 661.
gc_before_repack(d, pre) ==
    IF d THEN (IF pre THEN "detach" ELSE after_before)
    ELSE IF cfg.pack_refs THEN (IF pre THEN "pre_pack_refs" ELSE "pack_refs")
    ELSE IF cfg.prune_reflogs THEN (IF pre THEN "pre_reflog" ELSE "reflog")
    ELSE (IF pre THEN "detach" ELSE after_before)

\* where cmd_gc goes after the child invoked at position `at` succeeded
next_step(at) ==
    CASE at = "pre_pack_refs" -> IF cfg.prune_reflogs THEN "pre_reflog" ELSE "detach"
      [] at = "pre_reflog"    -> "detach"
      [] at = "pack_refs"     -> IF cfg.prune_reflogs THEN "reflog" ELSE after_before
      [] at = "reflog"        -> after_before
      [] at = "repack"        -> IF cfg.prune_expire THEN "prune" ELSE "worktree"
      [] at = "prune"         -> "worktree"
      [] at = "worktree"      -> "rerere"
      [] at = "rerere"        -> "sweep"
      [] at = "sweep"         -> IF cfg.write_commit_graph THEN "commit_graph" ELSE "finish"
      [] OTHER                -> "finish"

\* what a child or a warning adds to the captured stderr
wrote(p, out, tag) == IF log_installed[p] /\ out THEN err[p] \cup {tag} ELSE err[p]

OutChoices(p) == IF log_installed[p] THEN BOOLEAN ELSE {FALSE}

\* -------------------------------------------------------------- actions
\* report_last_gc_error with the comparison against the horizon inverted
report_last_gc_error_inverted(gc_log_expire_time, io_error) ==
    IF ~gc_log.exists THEN 0
    ELSE IF gc_log.mtime > gc_log_expire_time THEN 0
    ELSE IF io_error THEN 0 - 1
    ELSE IF gc_log.content # {} THEN 1
    ELSE 0

\* report_last_gc_error: 0 proceed, 1 the last gc failed, -1 gc.log is
\* unreadable. gc_log_expire_time is cmd_gc's parse of gc.logexpiry.
report_last_gc_error(gc_log_expire_time, io_error) ==
    IF ~gc_log.exists THEN 0
    ELSE IF gc_log.mtime < gc_log_expire_time THEN 0
    ELSE IF io_error THEN 0 - 1
    ELSE IF gc_log.content # {} THEN 1
    ELSE 0

\* cmd_gc up to its first lock: options, gc_config, need_to_gc and, in a
\* detaching --auto run, report_last_gc_error (lines 532-617, 631-642)
cmd_gc(p) ==
    /\ pc[p] = "init"
    /\ \E a \in BOOLEAN, f \in BOOLEAN, mp \in BOOLEAN,
          ml \in BOOLEAN, hk \in {0, 1}, io_error \in BOOLEAN :
         LET n == need_to_gc(cfg.gc_auto, mp, ml, hk)
             ret == report_last_gc_error(now - LogExpirySecs, io_error)
         IN
         /\ auto_gc' = [auto_gc EXCEPT ![p] = a]
         /\ force' = [force EXCEPT ![p] = f]
         /\ need' = [need EXCEPT ![p] = a /\ n.ret]
         /\ trace' = [trace EXCEPT ![p] =
                         IF a /\ n.hook_run
                         THEN <<[step |-> "pre-auto-gc", ok |-> (hk = 0)]>>
                         ELSE <<>>]
         /\ IF a /\ ~n.ret
            THEN Exit(p, 0, gc_log, err[p], NoDiag)
            ELSE IF a /\ cfg.detach_auto /\ ret < 0
            THEN Exit(p, 128, gc_log, err[p], [NoDiag EXCEPT !.msg = "cannot read gc.log"])
            ELSE IF a /\ cfg.detach_auto /\ ret = 1
            THEN Exit(p, 0, gc_log, err[p], [NoDiag EXCEPT !.msg = "last gc run reported"])
            ELSE /\ pc' = [pc EXCEPT ![p] =
                              IF a /\ cfg.detach_auto THEN "hold1" ELSE "hold2"]
                 /\ UNCHANGED <<gc_pid, gc_pid_lock, gc_log, gc_log_lock,
                                pidfile, err, status, diag>>
    /\ UNCHANGED <<now, cfg, daemonized, done, log_installed, overheld, mvars, xvars>>

\* lock_repo_for_gc line 416: hold_lock_file_for_update(gc.pid, LOCK_DIE_ON_ERROR)
HoldPidLock(p) ==
    /\ pc[p] \in {"hold1", "hold2"}
    /\ IF gc_pid_lock # 0
       THEN Exit(p, 128, gc_log, err[p], [NoDiag EXCEPT !.msg = "unable to create gc.pid.lock"])
       ELSE /\ gc_pid_lock' = p
            /\ pc' = [pc EXCEPT ![p] = IF pc[p] = "hold1" THEN "check1" ELSE "check2"]
            /\ UNCHANGED <<gc_pid, gc_log, gc_log_lock, pidfile, err, status, diag>>
    /\ UNCHANGED <<now, cfg, auto_gc, force, need, daemonized, done, log_installed,
                   trace, overheld, mvars, xvars>>

\* what cmd_gc prints when the lock is refused at line 644
already_running == [msg |-> "gc is already running", host |-> gc_pid.host,
                    pid |-> gc_pid.pid]

\* lock_repo_for_gc lines 418-461 and what cmd_gc does with its result
\* (lines 619-621 before detaching, lines 644-661 after)
LockRepoForGc(p) ==
    /\ pc[p] \in {"check1", "check2"}
    /\ gc_pid_lock = p
    /\ IF lock_refused(p)
       THEN /\ IF pc[p] = "check2" /\ ~auto_gc[p]
               THEN Exit(p, 128, gc_log, err[p], already_running)
               ELSE Exit(p, 0, gc_log, err[p], NoDiag)
            /\ UNCHANGED done
       ELSE /\ gc_pid' = my_record(p)
            /\ gc_pid_lock' = 0
            /\ pidfile' = register_tempfile(p)
            /\ pc' = [pc EXCEPT ![p] =
                         IF pc[p] = "check1" THEN gc_before_repack(done[p], TRUE)
                         ELSE IF daemonized[p] THEN "log"
                         ELSE gc_before_repack(done[p], FALSE)]
            /\ done' = [done EXCEPT ![p] = IF pc[p] = "check2" /\ daemonized[p]
                                           THEN done[p] ELSE TRUE]
            /\ UNCHANGED <<gc_log, gc_log_lock, err, status, diag>>
    /\ UNCHANGED <<now, cfg, auto_gc, force, need, daemonized, log_installed,
                   trace, overheld, mvars, xvars>>

\* cmd_gc lines 622-628: delete_tempfile(&pidfile), daemonize()
Detach(p) ==
    /\ pc[p] = "detach"
    /\ gc_pid' = NoPid
    /\ pidfile' = [pidfile EXCEPT ![p] = FALSE]
    /\ \E forked \in BOOLEAN : daemonized' = [daemonized EXCEPT ![p] = forked]
    /\ pc' = [pc EXCEPT ![p] = "hold2"]
    /\ UNCHANGED <<now, cfg, gc_pid_lock, gc_log, gc_log_lock, auto_gc, force, need,
                   done, log_installed, err, trace, status, diag,
                   overheld, mvars, xvars>>

\* cmd_gc lines 652-661: the lock on gc.log, dup2, the signal and exit
\* handlers, and the entry into gc_before_repack
InstallLog(p) ==
    /\ pc[p] = "log"
    /\ IF gc_log_lock # 0
       THEN /\ Exit(p, 128, gc_log, err[p], [NoDiag EXCEPT !.msg = "unable to create gc.log.lock"])
            /\ UNCHANGED <<log_installed, done>>
       ELSE /\ gc_log_lock' = p
            /\ log_installed' = [log_installed EXCEPT ![p] = TRUE]
            /\ pc' = [pc EXCEPT ![p] = gc_before_repack(done[p], FALSE)]
            /\ done' = [done EXCEPT ![p] = TRUE]
            /\ UNCHANGED <<gc_pid, gc_pid_lock, gc_log, pidfile, err, status, diag>>
    /\ UNCHANGED <<now, cfg, auto_gc, force, need, daemonized, trace,
                   overheld, mvars, xvars>>

\* run_command_v_opt of one child (pack-refs, reflog expire, repack, prune,
\* worktree prune, rerere gc) and die(FAILED_RUN) when it fails
RunWorker(p) ==
    /\ pc[p] \in WorkerPcs
    /\ \E ok \in BOOLEAN, out \in OutChoices(p) :
         /\ trace' = [trace EXCEPT ![p] = Append(@, [step |-> StepOf(pc[p]), ok |-> ok])]
         /\ IF ok
            THEN /\ pc' = [pc EXCEPT ![p] = next_step(pc[p])]
                 /\ err' = [err EXCEPT ![p] = wrote(p, out, "out")]
                 /\ UNCHANGED <<gc_pid, gc_pid_lock, gc_log, gc_log_lock, pidfile,
                                status, diag>>
            ELSE Exit(p, 128, gc_log, died(p, wrote(p, out, "out")),
                      [NoDiag EXCEPT !.msg = "failed to run", !.host = StepOf(pc[p])])
    /\ UNCHANGED <<now, cfg, auto_gc, force, need, daemonized, done, log_installed,
                   overheld, mvars, xvars>>

\* cmd_gc lines 689-694: reprepare_packed_git with report_pack_garbage,
\* clean_pack_garbage (unlink_or_warn may warn)
Sweep(p) ==
    /\ pc[p] = "sweep"
    /\ trace' = [trace EXCEPT ![p] = Append(@, [step |-> "pack-garbage sweep", ok |-> TRUE])]
    /\ \E out \in OutChoices(p) : err' = [err EXCEPT ![p] = wrote(p, out, "out")]
    /\ pc' = [pc EXCEPT ![p] = next_step("sweep")]
    /\ UNCHANGED <<now, cfg, gc_pid, gc_pid_lock, gc_log, gc_log_lock, auto_gc,
                   force, need, daemonized, done, pidfile, log_installed, status,
                   diag, overheld, mvars, xvars>>

\* cmd_gc lines 696-700: write_commit_graph_reachable, its result unused
CommitGraph(p) ==
    /\ pc[p] = "commit_graph"
    /\ trace' = [trace EXCEPT ![p] = Append(@, [step |-> "commit-graph write", ok |-> TRUE])]
    /\ \E out \in OutChoices(p) : err' = [err EXCEPT ![p] = wrote(p, out, "out")]
    /\ pc' = [pc EXCEPT ![p] = "finish"]
    /\ UNCHANGED <<now, cfg, gc_pid, gc_pid_lock, gc_log, gc_log_lock, auto_gc,
                   force, need, daemonized, done, pidfile, log_installed, status,
                   diag, overheld, mvars, xvars>>

\* cmd_gc lines 702-709: the warning about loose objects, unlink(gc.log)
\* in a run that did not detach, return 0
Finish(p) ==
    /\ pc[p] = "finish"
    /\ \E fstat_fails \in FstatChoices(p), too_many_loose \in BOOLEAN :
         ExitWith(p, 0,
                  IF ~daemonized[p] THEN NoLog ELSE gc_log,
                  wrote(p, auto_gc[p] /\ too_many_loose, "warning"),
                  NoDiag, fstat_fails)
    /\ UNCHANGED <<now, cfg, auto_gc, force, need, daemonized, done, log_installed,
                   trace, overheld, mvars, xvars>>

\* a signal of sigchain_push_common (SIGINT, SIGHUP, SIGTERM, SIGQUIT,
\* SIGPIPE): process_log_file_on_signal where installed, then the tempfile
\* cleanup, then the default disposition
Signal(p) ==
    /\ Running(p)
    /\ Exit(p, 143, gc_log, err[p], diag[p])
    /\ UNCHANGED <<now, cfg, auto_gc, force, need, daemonized, done, log_installed,
                   trace, overheld, mvars, xvars>>

\* SIGKILL: the process ends and no handler runs
Kill(p) ==
    /\ Running(p)
    /\ status' = [status EXCEPT ![p] = 137]
    /\ pc' = [pc EXCEPT ![p] = "ended"]
    /\ pidfile' = [pidfile EXCEPT ![p] = FALSE]
    /\ UNCHANGED <<now, cfg, gc_pid, gc_pid_lock, gc_log, gc_log_lock, auto_gc,
                   force, need, daemonized, done, log_installed, err, trace, diag,
                   overheld, mvars, xvars>>

\* time passes; overheld records that a holder's gc.pid became older than
\* the staleness limit while the holder was still running
Tick ==
    /\ now < MaxTicks * TickSecs
    /\ now' = now + TickSecs
    /\ overheld' = (overheld \/ (Holders # {} /\ gc_pid.exists
                                   /\ now' - gc_pid.mtime > StaleLimit))
    /\ UNCHANGED <<cfg, gc_pid, gc_pid_lock, gc_log, gc_log_lock, pc, auto_gc,
                   force, need, daemonized, done, pidfile, log_installed, err, trace,
                   status, diag, mvars, xvars>>

\* ---------------------------------------------------------- maintenance
\* initialize_tasks: the names in registration order
TaskNames == <<"fetch", "loose-objects", "pack-files", "gc", "commit-graph">>

\* the values of --task on the command line
ArgNames == {"fetch", "loose-objects", "pack-files", "gc", "commit-graph",
             "GC", "bogus"}

\* strcasecmp / strihash compare names with the case folded
lower(name) == IF name = "GC" THEN "gc" ELSE name

\* maintenance.<task>.enabled in the configuration
EnabledConfigs ==
    {[n \in {"fetch", "loose-objects", "pack-files", "gc", "commit-graph"} |-> "unset"],
     [n \in {"fetch", "loose-objects", "pack-files", "gc", "commit-graph"} |-> "true"],
     [n \in {"fetch", "loose-objects", "pack-files", "gc", "commit-graph"} |->
        IF n = "gc" THEN "false" ELSE IF n = "fetch" THEN "true" ELSE "unset"]}

\* initialize_tasks: the task array as registered, with the enabled bits
initialize_tasks(config) ==
    [i \in 1..Len(TaskNames) |->
        [name |-> TaskNames[i],
         auto_condition |-> TaskNames[i] # "fetch",
         task_order |-> 0,
         enabled |-> IF config[TaskNames[i]] = "unset"
                     THEN TaskNames[i] = "gc"
                     ELSE config[TaskNames[i]] = "true",
         selected |-> FALSE]]

\* task_option_parse without the test of task->selected
task_option_parse_no_dup(st, arg) ==
    LET n == st.opts.tasks_selected + 1
        hit == {i \in 1..Len(st.tasks) : lower(st.tasks[i].name) = lower(arg)}
        o == [st.opts EXCEPT !.tasks_selected = n]
    IN  IF hit = {} THEN [st EXCEPT !.opts = o, !.err = TRUE]
        ELSE LET i == CHOOSE j \in hit : TRUE IN
             [tasks |-> [st.tasks EXCEPT ![i].selected = TRUE,
                                         ![i].task_order = n],
              opts |-> o, err |-> FALSE]

\* task_option_parse for one --task <arg>: st holds tasks, opts and err,
\* err = TRUE when the callback returned 1
task_option_parse(st, arg) ==
    LET n == st.opts.tasks_selected + 1
        hit == {i \in 1..Len(st.tasks) : lower(st.tasks[i].name) = lower(arg)}
        o == [st.opts EXCEPT !.tasks_selected = n]
    IN  IF hit = {} THEN [st EXCEPT !.opts = o, !.err = TRUE]
        ELSE LET i == CHOOSE j \in hit : TRUE IN
             IF st.tasks[i].selected THEN [st EXCEPT !.opts = o, !.err = TRUE]
             ELSE [tasks |-> [st.tasks EXCEPT ![i].selected = TRUE,
                                              ![i].task_order = n],
                   opts |-> o, err |-> FALSE]

\* parse_options: the --task callbacks in command line order, up to the
\* first one that fails
RECURSIVE parse_options(_, _)
parse_options(st, args) ==
    IF args = <<>> \/ st.err THEN st
    ELSE parse_options(task_option_parse(st, Head(args)), Tail(args))

\* the sequences over S of length at most n
RECURSIVE SeqsUpTo(_, _)
SeqsUpTo(S, n) ==
    IF n = 0 THEN {<<>>}
    ELSE SeqsUpTo(S, n - 1) \cup
         {Append(q, x) : q \in {r \in SeqsUpTo(S, n - 1) : Len(r) = n - 1}, x \in S}

\* the orders QSORT can leave the array in
Perms(tasks) ==
    {[i \in 1..Len(tasks) |-> tasks[f[i]]] :
        f \in {g \in [1..Len(tasks) -> 1..Len(tasks)] :
                 \A a \in 1..Len(tasks), b \in 1..Len(tasks) : a # b => g[a] # g[b]}}

\* QSORT(tasks, num_tasks, compare_tasks_by_selection). qsort hands the
\* comparator pointers to the array slots (struct maintenance_task **), and
\* compare_tasks_by_selection reads them as struct maintenance_task *: the
\* task_order it compares is read from memory that holds no task, so the
\* comparison results, and with them the order after the sort, are arbitrary.
compare_tasks_by_selection(tasks) == Perms(tasks)

\* task_skipped without the test of the enabled bit
task_skipped_no_enabled(t, opts, cond) ==
    \/ opts.tasks_selected > 0 /\ ~t.selected
    \/ opts.auto_flag /\ (~t.auto_condition \/ ~cond)

\* task_skipped without the test of --auto
task_skipped_no_auto(t, opts, cond) ==
    \/ opts.tasks_selected > 0 /\ ~t.selected
    \/ opts.tasks_selected = 0 /\ ~t.enabled

\* loop_continues without the test of result
loop_continues_no_abort(result, i) == i <= Len(TaskNames)

\* maintenance_run lines 1340-1349: whether the loop passes over task t;
\* cond is what t's auto-condition returns
task_skipped(t, opts, cond) ==
    \/ opts.tasks_selected > 0 /\ ~t.selected
    \/ opts.tasks_selected = 0 /\ ~t.enabled
    \/ opts.auto_flag /\ (~t.auto_condition \/ ~cond)

\* whether the loop calls t's auto-condition (the || and && short-circuit)
auto_condition_called(t, opts) ==
    /\ ~(opts.tasks_selected > 0 /\ ~t.selected)
    /\ ~(opts.tasks_selected = 0 /\ ~t.enabled)
    /\ opts.auto_flag
    /\ t.auto_condition

\* maintenance_run line 1339: the loop condition
loop_continues(result, i) == result = 0 /\ i <= Len(TaskNames)

\* what the executor of a task can return: maintenance_task_gc hands on the
\* exit status of `git gc`, maintenance_task_commit_graph returns 0 under
\* --auto, the others return 0 or 1
ExecutorResults(name, opts) ==
    IF name = "gc" THEN {0, 1, 128}
    ELSE IF name = "commit-graph" /\ opts.auto_flag THEN {0}
    ELSE {0, 1}

\* maintenance_task_commit_graph dies when it cannot unlink the chain file
ExecutorMayDie(name, opts) == name = "commit-graph" /\ ~opts.auto_flag

\* lock_error_reported without the test of --auto and --quiet
lock_error_always(opts) == TRUE

\* maintenance_run line 1328: whether the busy lock is reported as an error
lock_error_reported(opts) == ~opts.auto_flag /\ ~opts.quiet

\* hold_lock_file_for_update that takes the lock whoever holds it
hold_lock_file_for_update_forced(lk) == 0

\* hold_lock_file_for_update(&lk, lock_path, LOCK_NO_DEREF): the lock file is
\* created with O_EXCL, so the call fails (-1) while the file exists
hold_lock_file_for_update(lk) == IF lk # "free" THEN 0 - 1 ELSE 0

\* a lock file that is left where it is
lock_kept(lk) == lk

\* rollback_lock_file(&lk): the lock file of this process is removed
rollback_lock_file(lk) == IF lk = "mine" THEN "free" ELSE lk

\* the lock file is a tempfile: a process that dies removes it on exit
remove_tempfiles_lock(lk) == IF lk = "mine" THEN "free" ELSE lk

NoOpts == [auto_flag |-> FALSE, quiet |-> FALSE, tasks_selected |-> 0]

MInit ==
    /\ m_tasks = initialize_tasks(CHOOSE c \in EnabledConfigs : \A n \in DOMAIN c : c[n] = "unset")
    /\ m_opts = NoOpts
    /\ m_args = <<>>
    /\ m_pc = "init"
    /\ m_i = 1
    /\ m_result = 0
    /\ m_status = 0 - 1
    /\ m_lock = "free"
    /\ m_log = <<>>

\* cmd_maintenance: initialize_tasks, parse_options and the dispatch of `run`
cmd_maintenance ==
    /\ m_pc = "init"
    /\ \E a \in BOOLEAN, q \in BOOLEAN, config \in EnabledConfigs,
          args \in SeqsUpTo(ArgNames, MaxTaskArgs) :
         LET st == parse_options([tasks |-> initialize_tasks(config),
                                  opts |-> [auto_flag |-> a, quiet |-> q,
                                            tasks_selected |-> 0],
                                  err |-> FALSE], args)
         IN /\ m_tasks' = st.tasks
            /\ m_opts' = st.opts
            /\ m_args' = args
            /\ m_pc' = IF st.err THEN "usage" ELSE "lock"
            /\ m_status' = IF st.err THEN 129 ELSE m_status
    /\ UNCHANGED <<m_i, m_result, m_lock, m_log, gcvars, xvars>>

\* maintenance_run lines 1313-1337: the lock, and the sort when --task was given
maintenance_run_lock ==
    /\ m_pc = "lock"
    /\ IF hold_lock_file_for_update(m_lock) < 0
       THEN /\ m_pc' = "busy"
            /\ m_status' = 0
            /\ m_log' = IF lock_error_reported(m_opts)
                        THEN Append(m_log, [kind |-> "error", name |-> "lock file exists", ret |-> 0])
                        ELSE m_log
            /\ UNCHANGED <<m_tasks, m_lock>>
       ELSE /\ m_lock' = "mine"
            /\ m_pc' = "loop"
            /\ IF m_opts.tasks_selected > 0
               THEN m_tasks' \in compare_tasks_by_selection(m_tasks)
               ELSE m_tasks' = m_tasks
            /\ UNCHANGED <<m_status, m_log>>
    /\ UNCHANGED <<m_opts, m_args, m_i, m_result, gcvars, xvars>>

\* maintenance_run lines 1339-1352: one iteration of the loop over tasks[]
maintenance_run_task ==
    /\ m_pc = "loop"
    /\ loop_continues(m_result, m_i)
    /\ LET t == m_tasks[m_i] IN
       \E cond \in BOOLEAN, r \in ExecutorResults(t.name, m_opts), dies \in BOOLEAN :
         LET called == auto_condition_called(t, m_opts)
             log1 == IF called
                     THEN Append(m_log, [kind |-> "auto", name |-> t.name,
                                         ret |-> IF cond THEN 1 ELSE 0])
                     ELSE m_log
         IN IF task_skipped(t, m_opts, cond)
            THEN /\ m_log' = log1
                 /\ m_i' = m_i + 1
                 /\ UNCHANGED <<m_result, m_pc, m_status, m_lock>>
            ELSE IF dies /\ ExecutorMayDie(t.name, m_opts)
            THEN /\ m_log' = Append(log1, [kind |-> "die", name |-> t.name, ret |-> 128])
                 /\ m_pc' = "died"
                 /\ m_status' = 128
                 /\ m_lock' = remove_tempfiles_lock(m_lock)
                 /\ UNCHANGED <<m_result, m_i>>
            ELSE /\ m_log' = Append(log1, [kind |-> "run", name |-> t.name, ret |-> r])
                 /\ m_result' = r
                 /\ m_i' = m_i + 1
                 /\ UNCHANGED <<m_pc, m_status, m_lock>>
    /\ UNCHANGED <<m_tasks, m_opts, m_args, gcvars, xvars>>

\* maintenance_run lines 1354-1355: rollback_lock_file, return result
maintenance_run_return ==
    /\ m_pc = "loop"
    /\ ~loop_continues(m_result, m_i)
    /\ m_lock' = rollback_lock_file(m_lock)
    /\ m_pc' = "done"
    /\ m_status' = m_result
    /\ UNCHANGED <<m_tasks, m_opts, m_args, m_i, m_result, m_log, gcvars, xvars>>

\* another maintenance process takes <object-dir>/maintenance.lock with the
\* same call of maintenance_run, or releases the lock it holds
other_maintenance ==
    /\ \/ /\ m_lock # "other"
          /\ hold_lock_file_for_update(m_lock) = 0
          /\ m_lock' = "other"
       \/ /\ m_lock = "other"
          /\ m_lock' = "free"
    /\ UNCHANGED <<m_tasks, m_opts, m_args, m_pc, m_i, m_result, m_status, m_log, gcvars, xvars>>

\* ------------------------------------------------------- task executors
\* off_t is a 64 bit integer: a size is <<hi, lo>> and stands for
\* hi * 2^30 + lo with 0 <= lo < 2^30
Limb == 2^30
MiB == 2^20

Size(hi, lo) == <<hi, lo>>
Less(a, b) == a[1] < b[1] \/ (a[1] = b[1] /\ a[2] < b[2])
PlusOne(a) == IF a[2] + 1 = Limb THEN <<a[1] + 1, 0>> ELSE <<a[1], a[2] + 1>>

\* #define TWO_GIGABYTES (2147483647)
TWO_GIGABYTES == Size(1, Limb - 1)

\* the pack sizes of the model: 1 byte, 100 MiB, 1 GiB, 2 GiB - 2, 2 GiB - 1,
\* 2.5 GiB and 3 GiB
PackSizes == {Size(0, 1), Size(0, 100 * MiB), Size(1, 0), Size(1, Limb - 2),
              Size(1, Limb - 1), Size(2, Limb \div 2), Size(3, 0)}

\* get_auto_pack_size without the limit of 2g
get_auto_pack_size_no_cap(packs) ==
    LET RECURSIVE walk(_, _, _)
        walk(i, max_size, second_largest_size) ==
            IF i > Len(packs) THEN second_largest_size
            ELSE IF Less(max_size, packs[i])
                 THEN walk(i + 1, packs[i], max_size)
                 ELSE IF Less(second_largest_size, packs[i])
                      THEN walk(i + 1, max_size, packs[i])
                      ELSE walk(i + 1, max_size, second_largest_size)
    IN  PlusOne(walk(1, Size(0, 0), Size(0, 0)))

\* get_auto_pack_size: the walk over get_all_packs(r) in list order
get_auto_pack_size(packs) ==
    LET RECURSIVE walk(_, _, _)
        walk(i, max_size, second_largest_size) ==
            IF i > Len(packs) THEN second_largest_size
            ELSE IF Less(max_size, packs[i])
                 THEN walk(i + 1, packs[i], max_size)
                 ELSE IF Less(second_largest_size, packs[i])
                      THEN walk(i + 1, max_size, packs[i])
                      ELSE walk(i + 1, max_size, second_largest_size)
        result_size == PlusOne(walk(1, Size(0, 0), Size(0, 0)))
    IN  IF Less(TWO_GIGABYTES, result_size) THEN TWO_GIGABYTES ELSE result_size

\* how a child of the pack-files task ends: its exit status, and whether it
\* leaves a multi-pack-index that does not pass verify
Outcomes == [exit : {0, 1}, bad : BOOLEAN]

\* the outcomes of the children of one pack-files task: the initial write,
\* expire, repack, and the write of rewrite_multi_pack_index
Worlds == [write : Outcomes, expire : Outcomes, repack : Outcomes, rewrite : Outcomes]

\* the multi-pack-index a child leaves. `write` replaces the file atomically:
\* when it fails the file is as before, when it succeeds the file is valid
\* unless it was built from a corrupt one. `expire` is verified by the task
\* even when it exits 0; a `repack` that exits 0 is not verified by the task
\* and leaves the file valid; a failed expire or repack may leave it corrupt.
midx_after(cmd, midx, o) ==
    CASE cmd = "write"  -> IF o.exit # 0 THEN midx
                           ELSE IF midx = "corrupt" /\ o.bad THEN "corrupt" ELSE "good"
      [] cmd = "expire" -> IF o.bad THEN "corrupt" ELSE midx
      [] cmd = "repack" -> IF o.exit # 0 /\ o.bad THEN "corrupt" ELSE midx
      [] cmd = "unlink" -> "absent"
      [] OTHER          -> midx

\* run_command_v_opt of `git multi-pack-index <cmd>`: st is the state of the
\* task (midx, calls); the call is recorded with its exit status
run_midx(st, cmd, o, batch) ==
    [midx |-> midx_after(cmd, st.midx, o),
     calls |-> Append(st.calls, [cmd |-> cmd, exit |-> o.exit, arg |-> batch]),
     exit |-> o.exit]

NoArg == Size(0, 0)

\* multi_pack_index_write
multi_pack_index_write(st, o) == run_midx(st, "write", o, NoArg)

\* multi_pack_index_verify: exits non-zero exactly for a corrupt file
multi_pack_index_verify(st) ==
    run_midx(st, "verify", [exit |-> IF st.midx = "corrupt" THEN 1 ELSE 0, bad |-> FALSE], NoArg)

\* multi_pack_index_expire
multi_pack_index_expire(st, o) == run_midx(st, "expire", o, NoArg)

\* rewrite_multi_pack_index without the unlink of the file
rewrite_multi_pack_index_no_unlink(st, o) ==
    LET w == multi_pack_index_write(st, o)
    IN  [midx |-> w.midx, calls |-> w.calls, result |-> IF w.exit # 0 THEN 1 ELSE 0]

\* rewrite_multi_pack_index that reports success whatever the write did
rewrite_multi_pack_index_blind(st, o) ==
    LET u == run_midx(st, "unlink", [exit |-> 0, bad |-> FALSE], NoArg)
        w == multi_pack_index_write(u, o)
    IN  [midx |-> w.midx, calls |-> w.calls, result |-> 0]

\* rewrite_multi_pack_index: unlink the file, write it anew
rewrite_multi_pack_index(st, o) ==
    LET u == run_midx(st, "unlink", [exit |-> 0, bad |-> FALSE], NoArg)
        w == multi_pack_index_write(u, o)
    IN  [midx |-> w.midx, calls |-> w.calls, result |-> IF w.exit # 0 THEN 1 ELSE 0]

\* multi_pack_index_repack that verifies after every repack
multi_pack_index_repack_always_verify(st, packs, w) ==
    LET r == run_midx(st, "repack", w.repack, get_auto_pack_size(packs))
        v == multi_pack_index_verify(r)
    IN  IF v.exit # 0 THEN rewrite_multi_pack_index(v, w.rewrite)
        ELSE [midx |-> v.midx, calls |-> v.calls, result |-> r.exit]

\* multi_pack_index_repack: repack with --batch-size, and when it failed and
\* verify fails too, rewrite
multi_pack_index_repack(st, packs, w) ==
    LET r == run_midx(st, "repack", w.repack, get_auto_pack_size(packs))
    IN  IF r.exit = 0 THEN [midx |-> r.midx, calls |-> r.calls, result |-> 0]
        ELSE LET v == multi_pack_index_verify(r)
             IN  IF v.exit # 0 THEN rewrite_multi_pack_index(v, w.rewrite)
                 ELSE [midx |-> v.midx, calls |-> v.calls, result |-> r.exit]

\* maintenance_task_pack_files on the multi-pack-index midx, with the
\* children ending as w says
maintenance_task_pack_files(midx, packs, w) ==
    LET s1 == multi_pack_index_write([midx |-> midx, calls |-> <<>>], w.write) IN
    IF s1.exit # 0 THEN [midx |-> s1.midx, calls |-> s1.calls, result |-> 1]
    ELSE LET v1 == multi_pack_index_verify(s1) IN
    IF v1.exit # 0 THEN rewrite_multi_pack_index(v1, w.rewrite)
    ELSE LET s2 == multi_pack_index_expire(v1, w.expire) IN
    IF s2.exit # 0 THEN [midx |-> s2.midx, calls |-> s2.calls, result |-> 1]
    ELSE LET v2 == multi_pack_index_verify(s2) IN
    IF v2.exit # 0 THEN rewrite_multi_pack_index(v2, w.rewrite)
    ELSE LET s3 == multi_pack_index_repack(v2, packs, w) IN
    IF s3.result # 0 THEN [midx |-> s3.midx, calls |-> s3.calls, result |-> 1]
    ELSE [midx |-> s3.midx, calls |-> s3.calls, result |-> 0]

\* the configured remotes
RemoteLists == {<<>>, <<"origin">>, <<"origin", "upstream">>,
                <<"origin", "upstream", "mirror">>}

\* the exit status of `git fetch`
FetchExits == {0, 1, 128}

\* maintenance_task_fetch that stops at the first fetch that fails
RECURSIVE fetch_until_failure(_, _, _)
fetch_until_failure(remotes, fill, exits) ==
    IF fill # 0 THEN [calls |-> <<>>, result |-> 1]
    ELSE IF remotes = <<>> THEN [calls |-> <<>>, result |-> 0]
    ELSE IF exits[1] # 0
         THEN [calls |-> <<[cmd |-> "fetch", exit |-> exits[1], arg |-> remotes[1]]>>,
               result |-> exits[1]]
    ELSE LET rest == fetch_until_failure(Tail(remotes), fill, Tail(exits))
         IN  [calls |-> <<[cmd |-> "fetch", exit |-> exits[1], arg |-> remotes[1]]>>
                        \o rest.calls,
              result |-> rest.result]

\* maintenance_task_fetch: fill is what for_each_remote returned, exits[i]
\* the exit status of the fetch of the i-th remote
maintenance_task_fetch(remotes, fill, exits) ==
    IF fill # 0 THEN [calls |-> <<>>, result |-> 1]
    ELSE [calls |-> [i \in 1..Len(remotes) |->
                        [cmd |-> "fetch", exit |-> exits[i], arg |-> remotes[i]]],
          result |-> 0]

\* ---- commit-graph
\* what the children of the commit-graph task do: the exit statuses of the
\* first write, of verify and of the second write, what unlink returns
GraphWorlds == [write1 : {0, 1}, verify : {0, 1}, unlink : {0, 0 - 1}, write2 : {0, 1}]

Call(cmd, exit) == [cmd |-> cmd, exit |-> exit, arg |-> NoArg]

\* maintenance_task_commit_graph without the verify
maintenance_task_commit_graph_no_verify(auto_flag, w) ==
    IF auto_flag THEN [calls |-> <<>>, result |-> 0, died |-> FALSE]
    ELSE [calls |-> <<Call("write", w.write1)>>,
          result |-> IF w.write1 # 0 THEN 1 ELSE 0, died |-> FALSE]

\* maintenance_task_commit_graph: nothing under --auto; write, verify, and
\* on a failed verify unlink of the chain file (die when it fails) and write
maintenance_task_commit_graph(auto_flag, w) ==
    LET c1 == <<Call("write", w.write1)>>
        c2 == Append(c1, Call("verify", w.verify))
        c3 == Append(c2, Call("unlink", w.unlink))
        c4 == Append(c3, Call("write", w.write2))
    IN  IF auto_flag THEN [calls |-> <<>>, result |-> 0, died |-> FALSE]
        ELSE IF w.write1 # 0 THEN [calls |-> c1, result |-> 1, died |-> FALSE]
        ELSE IF w.verify = 0 THEN [calls |-> c2, result |-> 0, died |-> FALSE]
        ELSE IF w.unlink # 0 THEN [calls |-> c3, result |-> 128, died |-> TRUE]
        ELSE IF w.write2 = 0 THEN [calls |-> c4, result |-> 0, died |-> FALSE]
        ELSE [calls |-> c4, result |-> 1, died |-> FALSE]

\* ---- loose-objects
\* static int loose_object_auto_limit = 100
loose_object_auto_limit == 100

\* data.batch_size of pack_loose
batch_size == 50000

\* the numbers of loose objects of the model
LooseCounts == {0, 1, 2, loose_object_auto_limit - 1, loose_object_auto_limit,
                loose_object_auto_limit + 1, batch_size - 1, batch_size,
                batch_size + 1, batch_size + 2}

\* the settings of maintenance.loose-objects.auto of the model: <<>> when
\* the variable is not set, <<n>> when it is set to n
LooseLimits == {<<>>, <<0 - 1>>, <<0>>, <<1>>, <<2>>}

\* for_each_loose_file_in_objdir over n loose objects: the callback is called
\* on one object after the other, and the walk ends with the first call that
\* returns non-zero. nonzero: the k for which the k-th call of the callback
\* returns non-zero.
for_each_loose_file_in_objdir(n, nonzero) ==
    LET hits == (1..n) \cap nonzero
    IN  IF hits = {} THEN [visited |-> n, ret |-> 0]
        ELSE [visited |-> CHOOSE k \in hits : \A j \in hits : k <= j, ret |-> 1]

\* repo_config_get_int of maintenance.loose-objects.auto over the default
loose_objects_auto(setting) ==
    IF setting = <<>> THEN loose_object_auto_limit ELSE setting[1]

\* loose_object_auto_condition whose callback stops above the limit
loose_object_auto_condition_above(setting, n) ==
    LET limit == loose_objects_auto(setting)
        loose_object_count == {k \in 1..n : k > limit}
    IN  IF limit = 0 THEN 0
        ELSE IF limit < 0 THEN 1
        ELSE for_each_loose_file_in_objdir(n, loose_object_count).ret

\* loose_object_auto_condition: the callback loose_object_count stops the
\* walk when ++count >= loose_object_auto_limit
loose_object_auto_condition(setting, n) ==
    LET limit == loose_objects_auto(setting)
        loose_object_count == {k \in 1..n : k >= limit}
    IN  IF limit = 0 THEN 0
        ELSE IF limit < 0 THEN 1
        ELSE for_each_loose_file_in_objdir(n, loose_object_count).ret

\* what the children of the loose-objects task do: the exit status of
\* prune-packed, whether start_command fails, what finish_command returns
LooseWorlds == [prune : {0, 1}, start : {0, 0 - 1}, finish : {0, 1}]

Event(cmd, exit, n) == [cmd |-> cmd, exit |-> exit, arg |-> n]

\* pack_loose over n loose objects: nothing without a loose object; the
\* callback write_loose_object_to_stdin writes the id of the object and
\* stops the walk when ++count > batch_size
pack_loose(n, w) ==
    LET loose_object_exists == 1..n
        write_loose_object_to_stdin == {k \in 1..n : k > batch_size}
        walk == for_each_loose_file_in_objdir(n, write_loose_object_to_stdin)
        c1 == <<Event("start pack-objects", w.start, 0)>>
        c2 == c1 \o <<Event("write ids", 0, walk.visited),
                      Event("fclose", 0, 0),
                      Event("finish pack-objects", w.finish, 0)>>
    IN  IF for_each_loose_file_in_objdir(n, loose_object_exists).ret = 0
        THEN [calls |-> <<>>, result |-> 0]
        ELSE IF w.start # 0 THEN [calls |-> c1, result |-> 1]
        ELSE [calls |-> c2, result |-> IF w.finish # 0 THEN 1 ELSE 0]

\* maintenance_task_loose_objects: prune_packed(r) || pack_loose(r); a
\* prune-packed that exits 0 has removed the loose objects that are packed
maintenance_task_loose_objects(env, w) ==
    LET c0 == <<Event("prune-packed", w.prune, 0)>>
        r == pack_loose(env.loose, w)
    IN  IF w.prune # 0 THEN [calls |-> c0, result |-> 1]
        ELSE [calls |-> c0 \o r.calls, result |-> r.result]

\* ---- the probes of need_to_gc
\* the packs of the model: pack_size, pack_local and pack_keep of a
\* struct packed_git
PackKinds ==
    [size : {1, 2, 3}, local : {TRUE}, keep : {FALSE}]
        \cup [size : {3}, local : {TRUE}, keep : {TRUE}]
        \cup [size : {3}, local : {FALSE}, keep : {FALSE}]

\* what need_to_gc reads: the packs, the number of loose objects in
\* objects/17, gc.auto, gc.autoPackLimit, gc.bigPackThreshold, what
\* total_ram() returns, the approximate number of objects, the heap that
\* estimate_repack_memory adds for them, the exit status of the hook
NeedEnvs ==
    [packs : SeqsUpTo(PackKinds, MaxPacks), loose17 : {1, 2, 3},
     gc_auto : {0, 256, 257}, gc_auto_pack_limit : {0, 1, 2},
     big_pack_threshold : {0, 2}, total_ram : {0, 8, 9}, nr_objects : {0, 1},
     heap : {2}, hook : {0, 1}]

\* too_many_loose_objects: more than DIV_ROUND_UP(gc_auto_threshold, 256)
\* objects in objects/17
too_many_loose_objects(threshold, n17) ==
    LET auto_threshold == (threshold + 255) \div 256
    IN  n17 > auto_threshold

\* too_many_packs: never with a limit <= 0; else the local packs without
\* .keep are more than the limit
too_many_packs(packs, limit) ==
    IF limit <= 0 THEN FALSE
    ELSE limit < Cardinality({i \in DOMAIN packs : packs[i].local /\ ~packs[i].keep})

\* find_base_packs: with a limit, the local packs of at least that size;
\* without, the first of the largest local packs. base is 0 for NULL.
find_base_packs(packs, limit) ==
    LET local == {i \in DOMAIN packs : packs[i].local}
        base == IF local = {} THEN 0
                ELSE CHOOSE i \in local :
                        /\ \A j \in local : packs[j].size <= packs[i].size
                        /\ \A j \in local : j < i => packs[j].size < packs[i].size
    IN  IF limit # 0
        THEN [keep |-> {i \in local : packs[i].size >= limit}, base |-> 0]
        ELSE [keep |-> IF base = 0 THEN {} ELSE {base}, base |-> base]

\* estimate_repack_memory: 0 without a pack or without objects, else the
\* pack with its index in the OS cache and the heap for the objects
estimate_repack_memory(packs, base, nr_objects, heap) ==
    IF base = 0 \/ nr_objects = 0 THEN 0 ELSE packs[base].size + heap

\* keep_pack that keeps the base pack only when twice the estimate exceeds
\* the memory
keep_pack_above_half(env) ==
    IF env.big_pack_threshold # 0
    THEN LET k == find_base_packs(env.packs, env.big_pack_threshold).keep
         IN  IF Cardinality(k) >= env.gc_auto_pack_limit
             THEN find_base_packs(env.packs, 0).keep
             ELSE k
    ELSE LET b == find_base_packs(env.packs, 0)
             mem_have == env.total_ram
             mem_want == estimate_repack_memory(env.packs, b.base,
                                                env.nr_objects, env.heap)
         IN  IF mem_have = 0 \/ mem_want * 2 <= mem_have THEN {} ELSE b.keep

\* keep_pack that keeps every pack of at least gc.bigPackThreshold
keep_pack_no_fallback(env) ==
    IF env.big_pack_threshold # 0
    THEN find_base_packs(env.packs, env.big_pack_threshold).keep
    ELSE LET b == find_base_packs(env.packs, 0)
             mem_have == env.total_ram
             mem_want == estimate_repack_memory(env.packs, b.base,
                                                env.nr_objects, env.heap)
         IN  IF mem_have = 0 \/ mem_want < mem_have \div 2 THEN {} ELSE b.keep

\* the list keep_pack of need_to_gc when there are too many packs
keep_pack(env) ==
    IF env.big_pack_threshold # 0
    THEN LET k == find_base_packs(env.packs, env.big_pack_threshold).keep
         IN  IF Cardinality(k) >= env.gc_auto_pack_limit
             THEN find_base_packs(env.packs, 0).keep
             ELSE k
    ELSE LET b == find_base_packs(env.packs, 0)
             mem_have == env.total_ram
             mem_want == estimate_repack_memory(env.packs, b.base,
                                                env.nr_objects, env.heap)
         IN  IF mem_have = 0 \/ mem_want < mem_have \div 2 THEN {} ELSE b.keep

\* add_repack_all_option without the --keep-pack options
add_repack_all_option(prune_expire) ==
    IF prune_expire = "now" THEN <<"-a">>
    ELSE IF prune_expire = "unset" THEN <<"-A">>
    ELSE <<"-A", "--unpack-unreachable">>

\* need_to_gc that looks at the loose objects first
need_to_gc_repack_loose_first(env, prune_expire) ==
    LET many_packs == too_many_packs(env.packs, env.gc_auto_pack_limit)
        many_loose == too_many_loose_objects(env.gc_auto, env.loose17)
        r == need_to_gc(env.gc_auto, many_packs, many_loose, env.hook)
    IN  [ret |-> r.ret, hook_run |-> r.hook_run,
         repack |-> IF env.gc_auto <= 0 THEN <<>>
                    ELSE IF many_loose THEN <<"--no-write-bitmap-index">>
                    ELSE IF many_packs THEN add_repack_all_option(prune_expire)
                    ELSE <<>>,
         keep |-> IF env.gc_auto > 0 /\ many_packs /\ ~many_loose
                  THEN keep_pack(env) ELSE {}]

\* need_to_gc with the options it adds to the command line of repack and
\* the packs it names in --keep-pack
need_to_gc_repack(env, prune_expire) ==
    LET many_packs == too_many_packs(env.packs, env.gc_auto_pack_limit)
        many_loose == too_many_loose_objects(env.gc_auto, env.loose17)
        r == need_to_gc(env.gc_auto, many_packs, many_loose, env.hook)
    IN  [ret |-> r.ret, hook_run |-> r.hook_run,
         repack |-> IF env.gc_auto <= 0 THEN <<>>
                    ELSE IF many_packs THEN add_repack_all_option(prune_expire)
                    ELSE IF many_loose THEN <<"--no-write-bitmap-index">>
                    ELSE <<>>,
         keep |-> IF env.gc_auto > 0 /\ many_packs THEN keep_pack(env) ELSE {}]

NoEnv == [loose |-> 0, packed |-> 0, loose_auto |-> <<>>]

XInit ==
    /\ x_pc = "idle"
    /\ x_midx0 = "absent"
    /\ x_midx = "absent"
    /\ x_packs = <<>>
    /\ x_remotes = <<>>
    /\ x_calls = <<>>
    /\ x_env = NoEnv
    /\ x_result = 0

\* the loop of maintenance_run calls the executor of pack-files
task_pack_files ==
    /\ x_pc = "idle"
    /\ \E w \in Worlds :
         LET r == maintenance_task_pack_files(x_midx, x_packs, w)
         IN /\ x_midx' = r.midx
            /\ x_calls' = r.calls
            /\ x_result' = r.result
    /\ x_pc' = "pack-files"
    /\ UNCHANGED <<x_midx0, x_packs, x_remotes, x_env, gcvars, mvars>>

\* the loop of maintenance_run calls the executor of fetch
task_fetch ==
    /\ x_pc = "idle"
    /\ \E fill \in {0, 1}, exits \in [1..Len(x_remotes) -> FetchExits] :
         LET r == maintenance_task_fetch(x_remotes, fill, exits)
         IN /\ x_calls' = r.calls
            /\ x_result' = r.result
    /\ x_pc' = "fetch"
    /\ UNCHANGED <<x_midx0, x_midx, x_packs, x_remotes, x_env, gcvars, mvars>>

\* the loop of maintenance_run calls the executor of commit-graph
task_commit_graph ==
    /\ x_pc = "idle"
    /\ \E w \in GraphWorlds :
         LET r == maintenance_task_commit_graph(m_opts.auto_flag, w)
         IN /\ x_calls' = r.calls
            /\ x_result' = r.result
            /\ x_pc' = IF r.died THEN "commit-graph died" ELSE "commit-graph"
    /\ UNCHANGED <<x_midx0, x_midx, x_packs, x_remotes, x_env, gcvars, mvars>>

\* the loop of maintenance_run calls the auto-condition of loose-objects
task_loose_objects_auto_condition ==
    /\ x_pc = "idle"
    /\ x_result' = loose_object_auto_condition(x_env.loose_auto,
                                               x_env.loose + x_env.packed)
    /\ x_pc' = "loose-objects auto"
    /\ UNCHANGED <<x_midx0, x_midx, x_packs, x_remotes, x_calls, x_env,
                   gcvars, mvars>>

\* the loop of maintenance_run calls the executor of loose-objects
task_loose_objects ==
    /\ x_pc = "idle"
    /\ \E w \in LooseWorlds :
         LET r == maintenance_task_loose_objects(x_env, w)
         IN /\ x_calls' = r.calls
            /\ x_result' = r.result
    /\ x_pc' = "loose-objects"
    /\ UNCHANGED <<x_midx0, x_midx, x_packs, x_remotes, x_env, gcvars, mvars>>

\* cmd_gc --auto calls need_to_gc
call_need_to_gc ==
    /\ x_pc = "idle"
    /\ \E prune_expire \in {"now", "2.weeks.ago", "unset"} :
         x_result' = need_to_gc_repack(x_env, prune_expire)
    /\ x_pc' = "need_to_gc"
    /\ UNCHANGED <<x_midx0, x_midx, x_packs, x_remotes, x_calls, x_env,
                   gcvars, mvars>>

\* ------------------------------------------------------- specification
ProcInit ==
    /\ now = 0
    /\ gc_pid_lock = 0
    /\ gc_log_lock = 0
    /\ auto_gc = [p \in Procs |-> FALSE]
    /\ force = [p \in Procs |-> FALSE]
    /\ need = [p \in Procs |-> FALSE]
    /\ daemonized = [p \in Procs |-> FALSE]
    /\ done = [p \in Procs |-> FALSE]
    /\ pidfile = [p \in Procs |-> FALSE]
    /\ log_installed = [p \in Procs |-> FALSE]
    /\ err = [p \in Procs |-> {}]
    /\ trace = [p \in Procs |-> <<>>]
    /\ status = [p \in Procs |-> 0 - 1]
    /\ diag = [p \in Procs |-> NoDiag]
    /\ overheld = FALSE

Init ==
    /\ ProcInit
    /\ cfg \in Configs
    /\ gc_pid \in PidInits
    /\ gc_log \in LogInits
    /\ pc = [p \in Procs |-> "init"]
    /\ MInit
    /\ XInit

Next ==
    \/ \E p \in Procs :
         \/ cmd_gc(p)
         \/ HoldPidLock(p)
         \/ LockRepoForGc(p)
         \/ Detach(p)
         \/ InstallLog(p)
         \/ RunWorker(p)
         \/ Sweep(p)
         \/ CommitGraph(p)
         \/ Finish(p)
         \/ Signal(p)
         \/ Kill(p)
    \/ Tick

Spec == Init /\ [][Next]_vars

\* One gc run under every configuration: the second process has ended.
InitPipe ==
    /\ ProcInit
    /\ cfg \in AllConfigs
    /\ gc_pid \in {NoPid,
                   [exists |-> TRUE, parses |-> TRUE, pid |-> DeadPid,
                    host |-> "hostB", mtime |-> 0]}
    /\ gc_log \in LogInits
    /\ pc = [p \in Procs |-> IF p = 1 THEN "init" ELSE "ended"]
    /\ MInit
    /\ XInit

SpecPipe == InitPipe /\ [][Next]_vars

\* One gc run under every setting of gc.auto: the second process has ended.
InitAuto ==
    /\ ProcInit
    /\ cfg \in AutoConfigs
    /\ gc_pid \in PidInits
    /\ gc_log \in LogInits
    /\ pc = [p \in Procs |-> IF p = 1 THEN "init" ELSE "ended"]
    /\ MInit
    /\ XInit

SpecAuto == InitAuto /\ [][Next]_vars

\* One gc run under every setting of gc.packrefs, of the two reflog
\* expiries and of gc.autodetach, in a bare and in a non-bare repository.
InitPre ==
    /\ ProcInit
    /\ cfg \in {gc_config(raw) :
                   raw \in [packrefs : {"unset", "true", "false", "notbare"},
                            bare : BOOLEAN,
                            reflogexpire : {"unset", "never", "90.days"},
                            reflogexpireunreachable : {"unset", "never"},
                            autodetach : BOOLEAN]}
    /\ gc_pid = NoPid
    /\ gc_log \in LogInits
    /\ pc = [p \in Procs |-> IF p = 1 THEN "init" ELSE "ended"]
    /\ MInit
    /\ XInit

SpecPre == InitPre /\ [][Next]_vars

\* One run of `git maintenance run`; no gc process is started.
InitMaint ==
    /\ ProcInit
    /\ cfg = DefaultConfig
    /\ gc_pid = NoPid
    /\ gc_log = NoLog
    /\ pc = [p \in Procs |-> "init"]
    /\ MInit
    /\ XInit

NextMaint ==
    \/ cmd_maintenance
    \/ maintenance_run_lock
    \/ maintenance_run_task
    \/ maintenance_run_return
    \/ other_maintenance

SpecMaint == InitMaint /\ [][NextMaint]_vars

\* One call of a task executor, on every multi-pack-index, set of packs and
\* list of remotes of the model.
InitTasks ==
    /\ ProcInit
    /\ cfg = DefaultConfig
    /\ gc_pid = NoPid
    /\ gc_log = NoLog
    /\ pc = [p \in Procs |-> "init"]
    /\ MInit
    /\ x_pc = "idle"
    /\ x_midx0 \in {"absent", "good", "corrupt"}
    /\ x_midx = x_midx0
    /\ x_packs \in SeqsUpTo(PackSizes, MaxPacks)
    /\ x_remotes \in RemoteLists
    /\ x_calls = <<>>
    /\ x_env = NoEnv
    /\ x_result = 0

NextTasks ==
    \/ task_pack_files
    \/ task_fetch

SpecTasks == InitTasks /\ [][NextTasks]_vars

\* One call of the executor of commit-graph or of loose-objects, or of the
\* auto-condition of loose-objects, with and without --auto, on every number
\* of loose objects and setting of maintenance.loose-objects.auto of the model.
InitExec ==
    /\ ProcInit
    /\ cfg = DefaultConfig
    /\ gc_pid = NoPid
    /\ gc_log = NoLog
    /\ pc = [p \in Procs |-> "init"]
    /\ m_tasks = initialize_tasks(CHOOSE c \in EnabledConfigs : \A n \in DOMAIN c : c[n] = "unset")
    /\ m_opts \in {[NoOpts EXCEPT !.auto_flag = a] : a \in BOOLEAN}
    /\ m_args = <<>>
    /\ m_pc = "init"
    /\ m_i = 1
    /\ m_result = 0
    /\ m_status = 0 - 1
    /\ m_lock = "free"
    /\ m_log = <<>>
    /\ x_pc = "idle"
    /\ x_midx0 = "absent"
    /\ x_midx = "absent"
    /\ x_packs = <<>>
    /\ x_remotes = <<>>
    /\ x_calls = <<>>
    /\ x_env \in [loose : LooseCounts, packed : {0, 1}, loose_auto : LooseLimits]
    /\ x_result = 0

NextExec ==
    \/ task_commit_graph
    \/ task_loose_objects_auto_condition
    \/ task_loose_objects

SpecExec == InitExec /\ [][NextExec]_vars

\* One call of need_to_gc, on every environment of the model.
InitNeed ==
    /\ ProcInit
    /\ cfg = DefaultConfig
    /\ gc_pid = NoPid
    /\ gc_log = NoLog
    /\ pc = [p \in Procs |-> "init"]
    /\ MInit
    /\ x_pc = "idle"
    /\ x_midx0 = "absent"
    /\ x_midx = "absent"
    /\ x_packs = <<>>
    /\ x_remotes = <<>>
    /\ x_calls = <<>>
    /\ x_env \in NeedEnvs
    /\ x_result = 0

SpecNeed == InitNeed /\ [][call_need_to_gc]_vars

\* ------------------------------------------------------ the claims: gc
LockPcs == {"hold1", "check1", "hold2", "check2"}

\* a step of process p that is not the delivery of a signal
Unsignalled(p) == status'[p] \notin {137, 143}

\* gc.pid is not stale for process p: it parses, is at most 12 hours old and
\* names another host, or a pid of this host that is alive (or gives EPERM)
NonStaleFor(p) ==
    /\ gc_pid.exists
    /\ gc_pid.parses
    /\ now - gc_pid.mtime <= 12 * 3600
    /\ \/ gc_pid.host # my_host(p)
       \/ gc_pid.pid = EpermPid
       \/ \E q \in Procs : Running(q) /\ getpid(q) = gc_pid.pid

\* C1 as stated: in every reachable state at most one process holds the
\* housekeeping lock.
C1_AtMostOneHolder == Cardinality(Holders) <= 1

\* C1 amended: at most one process holds the housekeeping lock as long as no
\* process runs with --force and no holder has kept gc.pid for more than 12
\* hours.
C1_OneHolderUnlessForcedOrStale ==
    ((\A p \in Procs : ~force[p]) /\ ~overheld) => Cardinality(Holders) <= 1

\* a process holds the lock and the other one, without --force, was refused
\* naming it
C1_Witness ==
    /\ ~overheld
    /\ \A p \in Procs : ~force[p]
    /\ \E p \in Procs, q \in Procs :
         /\ p \in Holders
         /\ pc[q] = "ended"
         /\ diag[q].msg = "gc is already running"
         /\ diag[q].pid = getpid(p)

\* C2: a process without --force that attempts the lock while gc.pid is not
\* stale is refused: gc.pid stays as it is, no further worker is invoked, and
\* the process exits 0 silently under --auto and otherwise dies with a
\* non-zero status naming the holder's host and pid.
C2_RefusedWhileHeld ==
    [][\A p \in Procs :
         (/\ pc[p] \in LockPcs
          /\ pc'[p] # pc[p]
          /\ Unsignalled(p)
          /\ ~force[p]
          /\ NonStaleFor(p))
         => \/ pc'[p] \in {"check1", "check2"}
            \/ /\ pc'[p] = "ended"
               /\ gc_pid' = gc_pid
               /\ trace'[p] = trace[p]
               /\ IF auto_gc[p]
                  THEN status'[p] = 0 /\ diag'[p] = NoDiag
                  ELSE /\ status'[p] # 0
                       /\ diag'[p].msg = "gc is already running"
                       /\ diag'[p].host = gc_pid.host
                       /\ diag'[p].pid = gc_pid.pid]_vars

\* C3: lock_repo_for_gc without --force refuses exactly when gc.pid is not
\* stale; in every other case it takes the lock and gc.pid holds the
\* caller's own pid and host.
C3_RefusesExactlyWhenHeld ==
    [][\A p \in Procs :
         (/\ pc[p] \in LockPcs
          /\ pc'[p] \notin LockPcs
          /\ Unsignalled(p)
          /\ ~force[p])
         => IF NonStaleFor(p)
            THEN pc'[p] = "ended" /\ gc_pid' = gc_pid /\ ~pidfile'[p]
            ELSE /\ pidfile'[p]
                 /\ gc_pid' = [exists |-> TRUE, parses |-> TRUE,
                               pid |-> getpid(p), host |-> my_host(p),
                               mtime |-> now]]_vars

\* C4: when a run that installed log capture ends by return, die or a caught
\* signal, gc.log exists iff the run wrote to stderr, and then holds what it
\* wrote; otherwise no gc.log remains, not even an older one.
C4_LogAtExit ==
    [][\A p \in Procs :
         (/\ status[p] = 0 - 1
          /\ status'[p] \in {0, 128, 143}
          /\ log_installed[p])
         => IF err'[p] = {}
            THEN ~gc_log'.exists
            ELSE /\ gc_log'.exists
                 /\ gc_log'.content = err'[p]
                 /\ gc_log'.by = p]_vars

\* a detached run was ended by a signal after it wrote to stderr, and gc.log
\* holds what it wrote
C4_Witness ==
    \E p \in Procs :
        /\ log_installed[p]
        /\ status[p] = 143
        /\ err[p] # {}
        /\ gc_log.exists
        /\ gc_log.by = p
        /\ gc_log.content = err[p]

\* gc.log blocks gc --auto: it exists, is not empty and is not older than
\* the gc.logexpiry horizon
LogBlocks ==
    /\ gc_log.exists
    /\ gc_log.content # {}
    /\ gc_log.mtime >= now - LogExpirySecs

NoWorkerIn(tr) == \A i \in 1..Len(tr) : tr[i].step = "pre-auto-gc"

\* C5 as stated: while gc.log blocks, every gc --auto warns, invokes no
\* pipeline worker, leaves gc.log in place and exits 0.
C5_EveryAutoRefuses ==
    [][\A p \in Procs :
         (pc[p] = "init" /\ pc'[p] # "init" /\ auto_gc'[p] /\ LogBlocks)
         => /\ pc'[p] = "ended"
            /\ status'[p] = 0
            /\ diag'[p].msg = "last gc run reported"
            /\ gc_log' = gc_log
            /\ NoWorkerIn(trace'[p])]_vars

\* C5 amended: while gc.log blocks, every gc --auto that runs with
\* gc.autoDetach set and whose need_to_gc returned true invokes no pipeline
\* worker and leaves gc.log in place; it warns and exits 0, or exits 128
\* when gc.log cannot be read.
C5_DetachingAutoRefuses ==
    [][\A p \in Procs :
         (/\ pc[p] = "init" /\ pc'[p] # "init"
          /\ auto_gc'[p] /\ need'[p] /\ cfg.detach_auto
          /\ LogBlocks)
         => /\ pc'[p] = "ended"
            /\ gc_log' = gc_log
            /\ NoWorkerIn(trace'[p])
            /\ \/ status'[p] = 0 /\ diag'[p].msg = "last gc run reported"
               \/ status'[p] = 128 /\ diag'[p].msg = "cannot read gc.log"]_vars

\* a gc --auto was refused with the warning because of the gc.log that the
\* detached run of the other process committed
C5_Witness ==
    \E p \in Procs, q \in Procs :
        /\ gc_log.exists /\ gc_log.by = q /\ gc_log.content # {}
        /\ pc[p] = "ended" /\ auto_gc[p] /\ need[p]
        /\ status[p] = 0
        /\ diag[p].msg = "last gc run reported"
        /\ trace[p] = <<[step |-> "pre-auto-gc", ok |-> TRUE]>>

\* C6: a non-empty gc.log was committed by a detached run that ended in
\* failure; a run that returns 0 leaves no non-empty gc.log.
C6_NonEmptyLogMeansFailure ==
    (gc_log.exists /\ gc_log.content # {} /\ gc_log.by \in Procs)
        => status[gc_log.by] \in {128, 143}

\* the fixed order of the steps of cmd_gc
PipelineOrder == <<"pack-refs", "reflog expire", "repack", "prune",
                   "worktree prune", "rerere gc", "pack-garbage sweep",
                   "commit-graph write">>

Pos(s) == CHOOSE i \in 1..Len(PipelineOrder) : PipelineOrder[i] = s

IsPipelineStep(x) == x.step # "pre-auto-gc"

\* C7: the steps of a gc run are invoked in the fixed order, each only after
\* the one before it succeeded, also across the detach, whatever is skipped.
C7_FixedOrder ==
    \A p \in Procs :
        LET t == SelectSeq(trace[p], IsPipelineStep) IN
        \A i \in 1..Len(t) :
            i < Len(t) => t[i].ok /\ Pos(t[i].step) < Pos(t[i + 1].step)

\* a detached run went through all eight steps and returned 0
C7_Witness ==
    \E p \in Procs :
        /\ daemonized[p]
        /\ status[p] = 0
        /\ LET t == SelectSeq(trace[p], IsPipelineStep) IN
           /\ Len(t) = Len(PipelineOrder)
           /\ \A i \in 1..Len(t) : t[i].step = PipelineOrder[i] /\ t[i].ok

\* C16: when gc.auto <= 0, need_to_gc returns false whatever the packs,
\* the loose objects and the hook would say, and gc --auto exits 0 without
\* having spawned a child: neither the pre-auto-gc hook nor a worker.
C16_AutoDisabled ==
    [][\A p \in Procs :
         (pc[p] = "init" /\ pc'[p] # "init" /\ auto_gc'[p] /\ cfg.gc_auto <= 0)
         => /\ \A mp \in BOOLEAN, ml \in BOOLEAN, hk \in {0, 1} :
                 ~need_to_gc(cfg.gc_auto, mp, ml, hk).ret
            /\ ~need'[p]
            /\ pc'[p] = "ended"
            /\ status'[p] = 0
            /\ trace'[p] = <<>>
            /\ gc_pid' = gc_pid /\ gc_log' = gc_log]_vars

\* a gc --auto under gc.auto = 0 has ended with 0 and without a child, with
\* a gc.log of an earlier run in place
C16_Witness ==
    \E p \in Procs :
        /\ cfg.gc_auto = 0
        /\ auto_gc[p]
        /\ pc[p] = "ended" /\ status[p] = 0
        /\ trace[p] = <<>>
        /\ gc_log.exists

\* process p ran one of the six workers in this step and the worker failed
WorkerFailed(p) ==
    /\ pc[p] \in WorkerPcs
    /\ Len(trace'[p]) = Len(trace[p]) + 1
    /\ ~trace'[p][Len(trace'[p])].ok

\* the process died with `failed to run <cmd>`: it has ended without another
\* step, with a non-zero status
DiedFailedToRun(p) ==
    /\ pc'[p] = "ended"
    /\ status'[p] # 0
    /\ diag'[p].msg = "failed to run"
    /\ diag'[p].host = StepOf(pc[p])

\* gc.log was committed by process p and holds the message of its die()
FailureLogged(p) ==
    /\ gc_log'.exists
    /\ gc_log'.by = p
    /\ "die" \in gc_log'.content

\* C17 as stated: when a worker exits non-zero cmd_gc dies with `failed to
\* run <cmd>`, invokes no later step, exits non-zero, and in a run with
\* auto-detach the message is recorded in a committed, non-empty gc.log.
C17_WorkerFailureLoggedUnderAutoDetach ==
    [][\A p \in Procs :
         WorkerFailed(p)
         => /\ DiedFailedToRun(p)
            /\ (auto_gc[p] /\ cfg.detach_auto) => FailureLogged(p)]_vars

\* C17 amended: when a worker exits non-zero cmd_gc dies with `failed to run
\* <cmd>`, invokes no later step and exits non-zero; the message is recorded
\* in a committed, non-empty gc.log exactly when the run had detached and
\* installed the log capture before the worker ran. pack-refs and reflog
\* expire of a run with auto-detach run before the detach, and a run whose
\* daemonize() failed goes on in the foreground: their failures are not
\* recorded, and gc.log stays as it was.
C17_WorkerFailureLoggedOnceDetached ==
    [][\A p \in Procs :
         WorkerFailed(p)
         => /\ DiedFailedToRun(p)
            /\ IF log_installed[p] THEN FailureLogged(p) ELSE gc_log' = gc_log]_vars

\* repack failed in a detached run, and gc.log holds the message of the die
C17_Witness ==
    \E p \in Procs :
        /\ daemonized[p] /\ log_installed[p]
        /\ status[p] = 128
        /\ diag[p].msg = "failed to run" /\ diag[p].host = "repack"
        /\ gc_log.exists /\ gc_log.by = p /\ "die" \in gc_log.content


\* the positions of the trace of p where the child step was invoked
StepsOf(p, step) == {i \in DOMAIN trace[p] : trace[p][i].step = step}

\* C28: pack-refs and reflog expire each run at most once in a gc
\* invocation, although gc_before_repack is called before detaching and
\* again in the detached process; pack-refs is not run when gc.packrefs is
\* false, or is notbare in a bare repository; reflog expire is not run when
\* both reflog expiry settings are never.
C28_BeforeRepackOnce ==
    \A p \in Procs :
        /\ Cardinality(StepsOf(p, "pack-refs")) <= 1
        /\ Cardinality(StepsOf(p, "reflog expire")) <= 1
        /\ (cfg.raw.packrefs = "false" \/ (cfg.raw.packrefs = "notbare" /\ cfg.raw.bare))
              => StepsOf(p, "pack-refs") = {}
        /\ (cfg.raw.reflogexpire = "never" /\ cfg.raw.reflogexpireunreachable = "never")
              => StepsOf(p, "reflog expire") = {}

\* a detached run in a non-bare repository with gc.packrefs = notbare has
\* called gc_before_repack twice and run pack-refs and reflog expire once
C28_Witness ==
    \E p \in Procs :
        /\ daemonized[p]
        /\ cfg.raw.packrefs = "notbare"
        /\ cfg.raw.reflogexpire = "never"
        /\ ~cfg.raw.bare
        /\ Cardinality(StepsOf(p, "pack-refs")) = 1
        /\ StepsOf(p, "reflog expire") # {}
        /\ StepsOf(p, "repack") # {}

\* C29: every worker cmd_gc invokes is started while the process holds the
\* housekeeping lock, after a successful lock_repo_for_gc and before the
\* release of gc.pid; in the detached --auto path the lock of the phase
\* before the repack is released before detaching and taken again before
\* the repack starts.
C29_WorkersUnderLock ==
    [][\A p \in Procs :
         /\ (pc[p] # "init" /\ Len(trace'[p]) > Len(trace[p])) => pidfile[p]
         /\ (pc[p] = "detach" /\ pc'[p] \notin {"detach", "ended"}) =>
               (~pidfile'[p] /\ pc'[p] = "hold2")
         /\ (pc[p] = "hold2" /\ pc'[p] \in WorkerPcs) => FALSE
         /\ (pc[p] = "check2" /\ pc'[p] \in WorkerPcs \cup {"log"}) => pidfile'[p]
      ]_vars

\* a detached process holds the lock again and has run the repack, after
\* pack-refs ran under the lock taken before detaching
C29_Witness ==
    \E p \in Procs :
        /\ daemonized[p]
        /\ pidfile[p]
        /\ StepsOf(p, "pack-refs") # {}
        /\ StepsOf(p, "repack") # {}
        /\ pc[p] \in WorkerPcs

\* C30: a gc process that ends removes gc.pid only if the file still holds
\* the record this process wrote; a gc.pid that another process reclaimed
\* (after 12 hours or with --force) is never deleted by the exit of the
\* earlier holder.
C30_RemovesOnlyOwnRecord ==
    [][\A p \in Procs :
         (pc[p] # "ended" /\ pc'[p] = "ended" /\ gc_pid.exists /\ ~gc_pid'.exists)
            => (gc_pid.pid = getpid(p) /\ gc_pid.host = my_host(p))
      ]_vars

\* ---------------------------------------------- the claims: maintenance
\* the ordinal task_option_parse recorded for the task called name
OrderOf(name) ==
    LET i == CHOOSE j \in DOMAIN m_tasks : m_tasks[j].name = name
    IN  m_tasks[i].task_order

\* the positions of m_log where an executor was invoked and returned
RunsAt == {i \in DOMAIN m_log : m_log[i].kind = "run"}

\* the positions of m_log where an executor was invoked
InvokedAt == {i \in DOMAIN m_log : m_log[i].kind \in {"run", "die"}}

\* C8: when maintenance run is given --task options, the selected tasks
\* execute in the order of their --task flags on the command line (ascending
\* ordinal of task_option_parse): of two executors invoked, the one invoked
\* first belongs to the task that was selected first.
C8_SelectionOrder ==
    m_opts.tasks_selected > 0 =>
        \A i \in InvokedAt, j \in InvokedAt :
            i < j => OrderOf(m_log[i].name) < OrderOf(m_log[j].name)

\* C9: under maintenance run --auto an executor is invoked only for a task
\* that has an auto-condition, directly after that condition returned true in
\* this run; a task that is passed over leaves the result of the run at 0, so
\* a non-zero result is the return value of an executor that ran.
C9_AutoGate ==
    m_opts.auto_flag =>
        /\ \A i \in InvokedAt :
              /\ m_log[i].name # "fetch"
              /\ i > 1
              /\ m_log[i - 1] = [kind |-> "auto", name |-> m_log[i].name, ret |-> 1]
        /\ m_result # 0 => \E i \in RunsAt : m_log[i].ret = m_result
        /\ m_pc = "done" => m_status = m_result

\* a run under --auto over the enabled tasks has ended with 0 after it passed
\* over fetch (no auto-condition) and over a task whose condition returned 0,
\* and ran a task whose condition returned true
C9_Witness ==
    /\ m_opts.auto_flag
    /\ m_opts.tasks_selected = 0
    /\ m_pc = "done"
    /\ m_status = 0
    /\ \E j \in DOMAIN m_tasks : m_tasks[j].name = "fetch" /\ m_tasks[j].enabled
    /\ \E i \in DOMAIN m_log : m_log[i].kind = "auto" /\ m_log[i].ret = 0
    /\ \E i \in RunsAt : m_log[i - 1].kind = "auto" /\ m_log[i - 1].ret = 1

\* C10: as soon as an executor returns non-zero nothing more is invoked (the
\* failing call stays the last entry of the log) and the result of the run is
\* that value; when every executor that ran returned 0 the result is 0; the
\* run returns its result.
C10_FirstFailureAborts ==
    /\ \A i \in RunsAt :
          m_log[i].ret # 0 => i = Len(m_log) /\ m_result = m_log[i].ret
    /\ (\A i \in RunsAt : m_log[i].ret = 0) => m_result = 0
    /\ m_pc = "done" => m_status = m_result

\* a run has returned the non-zero value of an executor while a later task
\* of the array, which the loop would have run, was never invoked
C10_Witness ==
    /\ m_pc = "done"
    /\ m_status # 0
    /\ ~m_opts.auto_flag
    /\ \E i \in RunsAt : i > 1 /\ m_log[i].ret = m_status
    /\ \E j \in DOMAIN m_tasks :
          /\ j >= m_i
          /\ ~task_skipped(m_tasks[j], m_opts, TRUE)
          /\ \A i \in DOMAIN m_log : m_log[i].name # m_tasks[j].name

\* C11: a maintenance run holds <object-dir>/maintenance.lock only while it
\* is in the loop over the tasks; once the process has ended (all tasks
\* succeeded, an executor returned non-zero, or an executor died) its lock
\* file is gone.
C11_LockReleased ==
    /\ m_lock = "mine" => m_pc = "loop"
    /\ m_pc \in {"done", "died"} => m_lock # "mine"

\* an executor died after the run had taken the lock and run another task,
\* and the lock file is gone
C11_Witness ==
    /\ m_pc = "died"
    /\ m_status = 128
    /\ m_lock = "free"
    /\ \E i \in RunsAt : i < Len(m_log)

\* C12: when the maintenance lock cannot be acquired, the run invokes no
\* auto-condition and no executor, leaves the lock file as it is, exits 0,
\* and reports an error exactly when neither --auto nor --quiet is in effect.
C12_BusyLock ==
    [][(m_pc = "lock" /\ m_pc' # "lock" /\ m_lock # "free")
         => /\ m_pc' = "busy"
            /\ m_lock' = m_lock
            /\ m_status' = 0
            /\ \A i \in DOMAIN m_log' : m_log'[i].kind = "error"
            /\ (m_log' # <<>>) <=> (~m_opts.auto_flag /\ ~m_opts.quiet)]_vars

\* a run without --auto that was not quiet found the lock of another process
\* and reported it
C12_Witness ==
    /\ m_pc = "busy"
    /\ m_lock = "other"
    /\ m_status = 0
    /\ ~m_opts.auto_flag /\ ~m_opts.quiet
    /\ Len(m_log) = 1 /\ m_log[1].kind = "error"

\* C31: of the maintenance runs on one object store at most one executes
\* task executors at a time: a run invokes auto-conditions and executors
\* only between its successful acquisition of <object-dir>/maintenance.lock
\* and its release of that lock, and a run acquires the lock only when no
\* other run holds it.
C31_OneRunAtATime ==
    [][/\ \A i \in DOMAIN m_log' \ DOMAIN m_log :
             m_log'[i].kind \in {"auto", "run", "die"}
                => (m_lock = "mine" /\ m_pc = "loop")
       /\ (m_lock # "mine" /\ m_lock' = "mine") => (m_lock = "free" /\ m_pc = "lock")
       /\ (m_lock # "other" /\ m_lock' = "other") => m_lock = "free"
       /\ (m_lock = "mine" /\ m_lock' # "mine")
             => (m_lock' = "free" /\ m_pc' \in {"done", "died"})
       /\ (m_lock = "other" /\ m_lock' # "other") => m_lock' = "free"
      ]_vars

\* a run with --auto is in its loop under its lock and has invoked an
\* auto-condition and an executor
C31_Witness ==
    /\ m_pc = "loop"
    /\ m_lock = "mine"
    /\ m_opts.auto_flag
    /\ InvokedAt # {}
    /\ \E i \in DOMAIN m_log : m_log[i].kind = "auto"

\* the command line names a task that is not registered
UnknownTask ==
    \E i \in DOMAIN m_args :
        \A j \in DOMAIN TaskNames : lower(TaskNames[j]) # lower(m_args[i])

\* the command line names a task twice, the case of the letters aside
DuplicateTask ==
    \E i \in DOMAIN m_args, j \in DOMAIN m_args :
        i < j /\ lower(m_args[i]) = lower(m_args[j])

\* C13: a command line with a --task name that matches no registered task,
\* or with a task named twice (case-insensitively), is a usage error: the
\* process exits 129, no auto-condition or executor is invoked and the lock
\* is never taken; every other command line is accepted.
C13_UsageError ==
    m_pc # "init" =>
        IF UnknownTask \/ DuplicateTask
        THEN m_pc = "usage" /\ m_status = 129 /\ m_log = <<>> /\ m_lock # "mine"
        ELSE m_pc # "usage"

\* --task gc --task GC was rejected
C13_Witness ==
    /\ m_args = <<"gc", "GC">>
    /\ m_pc = "usage"
    /\ m_status = 129

\* the place of a task in the registration order of initialize_tasks
RegIndex(name) == CHOOSE i \in DOMAIN TaskNames : TaskNames[i] = name

\* the names of the tasks whose executor was invoked, in the order of the calls
RECURSIVE InvokedNames(_)
InvokedNames(log) ==
    IF log = <<>> THEN <<>>
    ELSE IF Head(log).kind \in {"run", "die"}
         THEN <<Head(log).name>> \o InvokedNames(Tail(log))
         ELSE InvokedNames(Tail(log))

\* the names of the enabled tasks, in the order of the array
EnabledNames ==
    LET RECURSIVE pick(_)
        pick(i) == IF i > Len(m_tasks) THEN <<>>
                   ELSE IF m_tasks[i].enabled
                        THEN <<m_tasks[i].name>> \o pick(i + 1)
                        ELSE pick(i + 1)
    IN  pick(1)

\* without --task the array stays in registration order, and only gc is
\* enabled unless maintenance.<task>.enabled says otherwise
RegistrationOrderKept ==
    /\ \A i \in DOMAIN m_tasks : m_tasks[i].name = TaskNames[i]
    /\ \A c \in EnabledConfigs : \A i \in DOMAIN TaskNames :
          c[TaskNames[i]] = "unset" =>
              (initialize_tasks(c)[i].enabled <=> TaskNames[i] = "gc")

\* C20 as stated: without --task a maintenance run executes exactly the
\* tasks whose enabled bit is true, each once, in registration order.
C20_ExactlyEnabled ==
    (m_opts.tasks_selected = 0 /\ m_pc \in {"done", "died"})
        => /\ RegistrationOrderKept
           /\ InvokedNames(m_log) = EnabledNames

\* C20 amended: without --task a maintenance run executes only tasks whose
\* enabled bit is true (only gc unless maintenance.<task>.enabled overrides
\* it), each at most once, in registration order; it executes every one of
\* them when it runs without --auto and every executor returns 0. Under
\* --auto the tasks whose auto-condition does not hold are left out, and
\* the tasks after a failing one are not run.
C20_OnlyEnabledInOrder ==
    (m_opts.tasks_selected = 0 /\ m_pc \in {"loop", "done", "died"})
        => /\ RegistrationOrderKept
           /\ \A i \in InvokedAt :
                 \E j \in DOMAIN m_tasks :
                     m_tasks[j].name = m_log[i].name /\ m_tasks[j].enabled
           /\ \A i \in InvokedAt, j \in InvokedAt :
                 i < j => RegIndex(m_log[i].name) < RegIndex(m_log[j].name)
           /\ (m_pc = "done" /\ ~m_opts.auto_flag /\ m_result = 0)
                 => InvokedNames(m_log) = EnabledNames

\* a run without --task and without --auto, with every task enabled, ran the
\* five tasks in registration order and returned 0
C20_Witness ==
    /\ m_opts.tasks_selected = 0
    /\ ~m_opts.auto_flag
    /\ m_pc = "done"
    /\ m_status = 0
    /\ InvokedNames(m_log) = TaskNames

\* ------------------------------------------- the claims: task executors
\* the positions of x_calls where the child cmd was run
CallsOf(cmd) == {i \in DOMAIN x_calls : x_calls[i].cmd = cmd}

\* the multi-pack-index on disk passes verify
PassesVerify == x_midx # "corrupt"

\* every write, expire and repack child of the task exited 0
ChildrenSucceeded ==
    \A i \in DOMAIN x_calls :
        x_calls[i].cmd \in {"write", "expire", "repack"} => x_calls[i].exit = 0

RewriteSucceededAt(i) == x_calls[i].cmd = "unlink" /\ x_calls[i + 1].exit = 0
RewriteFailedAt(i) == x_calls[i].cmd = "unlink" /\ x_calls[i + 1].exit # 0

\* a step of the task was left unrepaired: the initial write failed, expire
\* failed, repack failed and no successful rewrite followed, or a rewrite
\* failed
LeftUnrepaired ==
    \/ x_calls[1].exit # 0
    \/ \E i \in CallsOf("expire") : x_calls[i].exit # 0
    \/ \E i \in CallsOf("repack") :
          /\ x_calls[i].exit # 0
          /\ ~\E j \in CallsOf("unlink") : j > i /\ RewriteSucceededAt(j)
    \/ \E i \in CallsOf("unlink") : RewriteFailedAt(i)

\* C15: the pack-files task returns non-zero exactly when a step was left
\* unrepaired; a rewrite is attempted only directly after a verify that
\* failed, at most once, and a verify failure followed by a successful
\* rewrite does not make the task fail.
C15_FailsIffUnrepaired ==
    x_pc = "pack-files" =>
        /\ (x_result # 0) <=> LeftUnrepaired
        /\ Cardinality(CallsOf("unlink")) <= 1
        /\ \A i \in CallsOf("unlink") :
              /\ i > 1 /\ x_calls[i - 1].cmd = "verify" /\ x_calls[i - 1].exit # 0
              /\ i + 1 = Len(x_calls) /\ x_calls[i + 1].cmd = "write"
        /\ \A i \in CallsOf("verify") :
              (x_calls[i].exit # 0 /\ RewriteSucceededAt(i + 1)) => x_result = 0

\* repack failed, verify failed after it, the rewrite succeeded and the task
\* returned 0
C15_Witness ==
    /\ x_pc = "pack-files"
    /\ x_result = 0
    /\ \E i \in CallsOf("repack") :
          /\ x_calls[i].exit # 0
          /\ x_calls[i + 1].cmd = "verify" /\ x_calls[i + 1].exit # 0
          /\ RewriteSucceededAt(i + 2)

\* C18: the fetch task runs one fetch for every configured remote, in the
\* order of the configuration, whatever the earlier fetches exited with, and
\* returns 0 whatever the fetches exit with: it returns non-zero only when
\* the remotes could not be listed, and then no fetch has run.
C18_FetchTolerant ==
    x_pc = "fetch" =>
        /\ x_result = 0 =>
              /\ Len(x_calls) = Len(x_remotes)
              /\ \A i \in DOMAIN x_calls :
                    x_calls[i].cmd = "fetch" /\ x_calls[i].arg = x_remotes[i]
        /\ x_result # 0 => x_calls = <<>>
        /\ x_calls # <<>> => x_result = 0

\* the fetch of the first of three remotes failed, the two others were
\* fetched all the same, the last one failed too, and the task returned 0
C18_Witness ==
    /\ x_pc = "fetch"
    /\ Len(x_remotes) = 3
    /\ Len(x_calls) = 3
    /\ x_calls[1].exit # 0
    /\ x_calls[2].exit = 0
    /\ x_calls[3].exit # 0
    /\ x_result = 0

\* the second largest of the pack sizes: 0 with fewer than two packs, the
\* maximum when the maximum occurs twice
SecondLargest(packs) ==
    IF Len(packs) < 2 THEN Size(0, 0)
    ELSE LET top == CHOOSE i \in DOMAIN packs :
                        \A j \in DOMAIN packs : ~Less(packs[i], packs[j])
             rest == DOMAIN packs \ {top}
             snd == CHOOSE i \in rest : \A j \in rest : ~Less(packs[i], packs[j])
         IN  packs[snd]

\* C19: get_auto_pack_size returns min(s + 1, 2^31 - 1) for the second
\* largest pack size s, so a value from 1 to 2^31 - 1; it is the --batch-size
\* the task hands to repack. Packs of 1 GiB and 100 MiB give 100 MiB + 1,
\* packs of 3 GiB and 2.5 GiB give 2 GiB - 1.
C19_AutoPackSize ==
    LET s1 == PlusOne(SecondLargest(x_packs))
        r == get_auto_pack_size(x_packs)
    IN  /\ r = IF Less(TWO_GIGABYTES, s1) THEN TWO_GIGABYTES ELSE s1
        /\ ~Less(r, Size(0, 1)) /\ ~Less(TWO_GIGABYTES, r)
        /\ x_packs = <<Size(1, 0), Size(0, 100 * MiB)>> => r = Size(0, 100 * MiB + 1)
        /\ x_packs = <<Size(3, 0), Size(2, Limb \div 2)>> => r = Size(1, Limb - 1)
        /\ \A i \in CallsOf("repack") : x_calls[i].arg = r

\* the task has run repack on packs of 2.5 GiB and 3 GiB with the batch
\* size 2 GiB - 1
C19_Witness ==
    /\ x_pc = "pack-files"
    /\ x_packs = <<Size(2, Limb \div 2), Size(3, 0)>>
    /\ \E i \in CallsOf("repack") : x_calls[i].arg = TWO_GIGABYTES

\* the call at position i of x_calls is cmd and exited with 0
OkAt(i, cmd) == i \in DOMAIN x_calls /\ x_calls[i].cmd = cmd /\ x_calls[i].exit = 0

\* the call at position i of x_calls is cmd and exited with non-zero
FailedAt(i, cmd) == i \in DOMAIN x_calls /\ x_calls[i].cmd = cmd /\ x_calls[i].exit # 0

\* C21 as stated: the stages run in the order write, verify, expire, verify,
\* repack; a verify failure is repaired by unlink and write, and after a
\* successful repair the task goes on, so that expire and repack are reached
\* in every run in which no failure was left unrepaired.
C21_StagesReachedUnlessUnrepaired ==
    (x_pc = "pack-files" /\ ~LeftUnrepaired)
        => (CallsOf("expire") # {} /\ CallsOf("repack") # {})

\* C21 amended: the task runs write, verify, expire, verify, repack in this
\* order, and verifies after repack only when repack failed; a verify that
\* fails is followed by unlink and write, and the task then returns, whether
\* the rewrite succeeded or not. expire is reached exactly when the initial
\* write succeeded and the verify after it passed, repack exactly when
\* expire succeeded and the verify after it passed.
C21_StagesEndAtRepair ==
    x_pc = "pack-files" =>
        /\ x_calls[1].cmd = "write"
        /\ OkAt(1, "write") => x_calls[2].cmd = "verify"
        /\ CallsOf("expire") \subseteq {3}
        /\ CallsOf("repack") \subseteq {5}
        /\ 3 \in CallsOf("expire") <=> (OkAt(1, "write") /\ OkAt(2, "verify"))
        /\ OkAt(3, "expire") => x_calls[4].cmd = "verify"
        /\ 5 \in CallsOf("repack") <=> (OkAt(3, "expire") /\ OkAt(4, "verify"))
        /\ OkAt(5, "repack") => Len(x_calls) = 5
        /\ FailedAt(5, "repack") => x_calls[6].cmd = "verify"
        /\ \A i \in CallsOf("verify") :
              IF x_calls[i].exit # 0
              THEN /\ Len(x_calls) = i + 2
                   /\ x_calls[i + 1].cmd = "unlink"
                   /\ x_calls[i + 2].cmd = "write"
                   /\ x_result = IF x_calls[i + 2].exit = 0 THEN 0 ELSE 1
              ELSE i + 1 \notin CallsOf("unlink")

\* the verify after the initial write failed, the rewrite succeeded, and the
\* task returned 0 without having run expire or repack
C21_Witness ==
    /\ x_pc = "pack-files"
    /\ x_result = 0
    /\ FailedAt(2, "verify")
    /\ RewriteSucceededAt(3)
    /\ CallsOf("expire") = {}
    /\ CallsOf("repack") = {}

\* C22: under --auto the commit-graph task runs no child and returns 0.
\* Otherwise it writes, then verifies; only when verify failed does it
\* unlink the chain file and write once more. It returns 0 exactly when the
\* first write succeeded and verify passed or the second write succeeded,
\* and it never runs more than two writes and one verify.
C22_CommitGraphTask ==
    /\ x_pc \in {"commit-graph", "commit-graph died"} =>
          /\ m_opts.auto_flag => (x_calls = <<>> /\ x_result = 0 /\ x_pc = "commit-graph")
          /\ ~m_opts.auto_flag =>
                /\ x_calls[1].cmd = "write"
                /\ OkAt(1, "write") <=> Len(x_calls) > 1
                /\ Len(x_calls) > 1 => x_calls[2].cmd = "verify"
                /\ FailedAt(2, "verify") <=> Len(x_calls) > 2
                /\ Len(x_calls) > 2 => x_calls[3].cmd = "unlink"
                /\ (Len(x_calls) > 2 /\ x_calls[3].exit = 0)
                      <=> (Len(x_calls) = 4 /\ x_calls[4].cmd = "write")
          /\ Cardinality(CallsOf("write")) <= 2
          /\ Cardinality(CallsOf("verify")) <= 1
          /\ Len(x_calls) <= 4
    /\ x_pc = "commit-graph" =>
          (x_result = 0 <=>
              \/ m_opts.auto_flag
              \/ OkAt(1, "write") /\ (OkAt(2, "verify") \/ OkAt(4, "write")))
    /\ x_pc = "commit-graph" => x_result \in {0, 1}

\* verify failed, the chain file was removed, and the second write succeeded
C22_Witness ==
    /\ x_pc = "commit-graph"
    /\ ~m_opts.auto_flag
    /\ FailedAt(2, "verify")
    /\ OkAt(4, "write")
    /\ x_result = 0

\* the number of loose objects the auto-condition of loose-objects walks over
LooseSeen == x_env.loose + x_env.packed

\* the value of maintenance.loose-objects.auto in force
LooseLimit == loose_objects_auto(x_env.loose_auto)

\* C23 as stated: the auto-condition of loose-objects is true exactly when
\* the number of loose objects is greater than maintenance.loose-objects.auto
\* (default 100); 0 makes it always false, a negative value always true.
C23_TrueAboveLimit ==
    x_pc = "loose-objects auto" =>
        /\ x_result \in {0, 1}
        /\ x_result = 1 <=> (LooseLimit < 0 \/ (LooseLimit > 0 /\ LooseSeen > LooseLimit))

\* C23 amended: the auto-condition of loose-objects is true exactly when the
\* number of loose objects is at least maintenance.loose-objects.auto
\* (default 100); 0 makes it always false, a negative value always true.
C23_TrueFromLimit ==
    x_pc = "loose-objects auto" =>
        /\ x_result \in {0, 1}
        /\ x_result = 1 <=> (LooseLimit < 0 \/ (LooseLimit > 0 /\ LooseSeen >= LooseLimit))

\* with the default limit and exactly as many loose objects the condition is true
C23_Witness ==
    /\ x_pc = "loose-objects auto"
    /\ x_env.loose_auto = <<>>
    /\ LooseSeen = loose_object_auto_limit
    /\ x_result = 1

\* C24: the loose-objects task spawns pack-objects only if at least one loose
\* object exists, writes at most 50 000 object ids to its stdin, then closes
\* the stdin and waits for the worker.
C24_AtMostBatchSize ==
    x_pc = "loose-objects" =>
        /\ CallsOf("start pack-objects") # {} => x_env.loose >= 1
        /\ \A i \in CallsOf("write ids") :
              /\ x_calls[i].arg <= batch_size
              /\ x_calls[i - 1].cmd = "start pack-objects"
              /\ x_calls[i + 1].cmd = "fclose"
              /\ x_calls[i + 2].cmd = "finish pack-objects"
              /\ Len(x_calls) = i + 2

\* need_to_gc has run with gc.auto > 0 and found too many packs
TooManyPacksSeen ==
    /\ x_pc = "need_to_gc"
    /\ x_env.gc_auto > 0
    /\ too_many_packs(x_env.packs, x_env.gc_auto_pack_limit)

\* the local packs that no local pack exceeds in size
LargestLocal ==
    {i \in DOMAIN x_env.packs :
        /\ x_env.packs[i].local
        /\ \A j \in DOMAIN x_env.packs :
              x_env.packs[j].local => x_env.packs[j].size <= x_env.packs[i].size}

\* what estimate_repack_memory returns for the largest local pack
WorkingSet ==
    IF x_env.nr_objects = 0 THEN 0
    ELSE x_env.heap + x_env.packs[CHOOSE i \in LargestLocal : TRUE].size

\* exactly one of the largest local packs is kept
KeepsLargest == Cardinality(x_result.keep) = 1 /\ x_result.keep \subseteq LargestLocal

\* C25 as stated: with too many packs and gc.bigPackThreshold = 0, the
\* largest local pack is kept exactly when total RAM is non-zero and
\* working_set * 2 > total_ram; otherwise the all-repack has no --keep-pack.
C25_KeptAboveHalf ==
    (TooManyPacksSeen /\ x_env.big_pack_threshold = 0) =>
        IF x_env.total_ram # 0 /\ WorkingSet * 2 > x_env.total_ram
        THEN KeepsLargest
        ELSE x_result.keep = {}

\* C25 amended: with too many packs and gc.bigPackThreshold = 0, the largest
\* local pack is kept exactly when total RAM is non-zero and the working set
\* is at least total_ram / 2 (integer division); otherwise the all-repack
\* has no --keep-pack.
C25_KeptFromHalf ==
    (TooManyPacksSeen /\ x_env.big_pack_threshold = 0) =>
        /\ x_result.repack[1] \in {"-a", "-A"}
        /\ IF x_env.total_ram # 0 /\ WorkingSet >= x_env.total_ram \div 2
           THEN KeepsLargest
           ELSE x_result.keep = {}

\* the working set is exactly half of the memory and the pack is kept
C25_Witness ==
    /\ TooManyPacksSeen
    /\ x_env.big_pack_threshold = 0
    /\ x_env.total_ram # 0
    /\ WorkingSet * 2 = x_env.total_ram
    /\ KeepsLargest

\* the trigger of need_to_gc on the number of packs: the local packs
\* without .keep are more than a limit above 0
PackTrigger ==
    /\ x_env.gc_auto_pack_limit > 0
    /\ Cardinality({i \in DOMAIN x_env.packs :
                       x_env.packs[i].local /\ ~x_env.packs[i].keep})
          > x_env.gc_auto_pack_limit

\* the trigger of need_to_gc on the loose objects: more than ceil(gc.auto / 256)
LooseTrigger ==
    \E c \in 0..x_env.gc_auto :
        /\ c * 256 >= x_env.gc_auto
        /\ (c - 1) * 256 < x_env.gc_auto
        /\ x_env.loose17 > c

\* C26: with gc.auto > 0, need_to_gc is true exactly when the local non-keep
\* packs exceed gc.autoPackLimit (a limit <= 0 disabling the trigger) or the
\* sampled loose objects exceed ceil(gc.auto / 256), and the pre-auto-gc hook
\* exits 0; the pack trigger takes precedence and queues an all-repack (-A or
\* -a), otherwise the loose trigger queues an incremental repack
\* (--no-write-bitmap-index); the hook is invoked only when a trigger fired.
C26_NeedToGc ==
    (x_pc = "need_to_gc" /\ x_env.gc_auto > 0) =>
        /\ x_result.ret <=> ((PackTrigger \/ LooseTrigger) /\ x_env.hook = 0)
        /\ PackTrigger => x_result.repack[1] \in {"-a", "-A"}
        /\ (~PackTrigger /\ LooseTrigger) =>
              (x_result.repack = <<"--no-write-bitmap-index">> /\ x_result.keep = {})
        /\ x_result.hook_run <=> (PackTrigger \/ LooseTrigger)
        /\ ~(PackTrigger \/ LooseTrigger) => x_result.repack = <<>>

\* both triggers fired, the hook exited 0 and an all-repack was queued
C26_Witness ==
    /\ x_pc = "need_to_gc"
    /\ x_env.gc_auto > 0
    /\ PackTrigger
    /\ LooseTrigger
    /\ x_result.ret
    /\ x_result.repack[1] = "-A"

\* the local packs of at least gc.bigPackThreshold
Qualifying ==
    {i \in DOMAIN x_env.packs :
        x_env.packs[i].local /\ x_env.packs[i].size >= x_env.big_pack_threshold}

\* C27: with too many packs and gc.bigPackThreshold > 0, the keep list holds
\* every local pack of at least the threshold when fewer than
\* gc.autoPackLimit packs qualify, and only the single largest local pack
\* when gc.autoPackLimit or more qualify; the memory estimate is not
\* consulted.
C27_BigPackThreshold ==
    (TooManyPacksSeen /\ x_env.big_pack_threshold > 0) =>
        /\ Cardinality(Qualifying) < x_env.gc_auto_pack_limit =>
              x_result.keep = Qualifying
        /\ Cardinality(Qualifying) >= x_env.gc_auto_pack_limit => KeepsLargest
        /\ \A ram \in 0..9, nr \in {0, 1} :
              keep_pack([x_env EXCEPT !.total_ram = ram, !.nr_objects = nr])
                  = x_result.keep

\* gc.autoPackLimit packs qualify and only the largest is kept
C27_Witness ==
    /\ TooManyPacksSeen
    /\ x_env.big_pack_threshold > 0
    /\ Cardinality(Qualifying) = x_env.gc_auto_pack_limit
    /\ Cardinality(Qualifying) > 1
    /\ KeepsLargest

====
